---- MODULE Spec2Model ----
(***************************************************************************)
(* TunaDex anomaly detector (src/src/tunadex/anomaly/detector.py) as a     *)
(* state machine.  Strings are sequences of one-character strings, so     *)
(* that str.lower(), re.sub and the two regular expressions are computed   *)
(* character by character.  An optional value (None | x) is a sequence of  *)
(* length at most one: <<>> is None, <<x>> is x.                           *)
(***************************************************************************)
EXTENDS Integers, Sequences, FiniteSets, TLC

VARIABLES shipments, emails, anomalies, op, payload, files, loaded,
          saved, tabs, mail_text, hints, response, run

vars == <<shipments, emails, anomalies, op, payload, files, loaded,
         saved, tabs, mail_text, hints, response, run>>

----------------------------------------------------------------------------
(* Characters and the string operations of the Python source.              *)

UpperLetters == <<"A","B","C","D","E","F","G","H","I","J","K","L","M","N","O","P","Q","R","S","T","U","V","W","X","Y","Z">>
LowerLetters == <<"a","b","c","d","e","f","g","h","i","j","k","l","m","n","o","p","q","r","s","t","u","v","w","x","y","z">>

Digits == {"0","1","2","3","4","5","6","7","8","9"}

Range(f) == {f[i] : i \in DOMAIN f}

\* \d of the re module on the characters used here
IsDigit(c) == c \in Digits

WordChars == Digits \cup Range(UpperLetters) \cup Range(LowerLetters) \cup {"_"}

\* \w : letters, digits and the underscore
IsWordChar(c) == c \in WordChars

\* \s
IsSpace(c) == c \in {" ", "\t", "\n", "\r"}

\* the character class [-\s]
IsSeparator(c) == c = "-" \/ IsSpace(c)

\* the lowercase letter of each uppercase letter
ToLower ==
    [c \in Range(UpperLetters) |-> LowerLetters[CHOOSE i \in DOMAIN UpperLetters : UpperLetters[i] = c]]

\* str.lower() on one character
LowerChar(c) == IF c \in DOMAIN ToLower THEN ToLower[c] ELSE c

\* str.lower()
Lower(s) == [i \in 1..Len(s) |-> LowerChar(s[i])]

\* re.sub(r"[-\s]", "", a)
StripSeparators(s) == SelectSeq(s, LAMBDA c : ~IsSeparator(c))

None == <<>>
Some(x) == <<x>>

\* the digit count of clean_pattern, ^\d{11}$
AwbDigits == 11

\* the sentinel of a shipment whose AWB could not be identified
MISSING == <<"M","I","S","S","I","N","G">>

\* clean_pattern.match(awb) for clean_pattern = re.compile(r"^\d{11}$"):
\* match() anchors at the start only, and $ matches at the end of the string
\* and also just before a line feed that ends the string.
CleanPatternMatch(awb) ==
    /\ Len(awb) >= AwbDigits
    /\ \A i \in 1..AwbDigits : IsDigit(awb[i])
    /\ \/ Len(awb) = AwbDigits
       \/ Len(awb) = AwbDigits + 1 /\ awb[AwbDigits + 1] = "\n"

----------------------------------------------------------------------------
(* Record model (extraction/schema.py).                                    *)

ShipmentLine(customer, sp, weight) ==
    [customer_name |-> customer, company |-> None, species |-> sp,
     boxes |-> None, weight_lbs |-> weight]

Shipment(a, ls, ids) == [awb |-> a, lines |-> ls, source_email_ids |-> ids]

EmailDetail(id, subj, body) == [message_id |-> id, subject |-> subj, body_text |-> body]

\* description: the message template and the values it interpolates (the
\* strings in strs, the numbers in nums); supplier and date are not modelled
Description(tmpl, ss, ns) == [template |-> tmpl, strs |-> ss, nums |-> ns]

Anomaly(type, sev, desc, rawb, rems) ==
    [anomaly_type |-> type, severity |-> sev, description |-> desc,
     related_awb |-> rawb, related_emails |-> rems]

----------------------------------------------------------------------------
(* check_awb_consistency                                                   *)

\* mutant: hyphens and whitespace are stripped before the pattern is tried
AwbConsistencyOfStripped(shipment) ==
    IF shipment.awb = MISSING
    THEN <<Anomaly("MISSING_AWB", "ERROR", Description("has no AWB", <<>>, <<>>),
                   None, shipment.source_email_ids)>>
    ELSE IF ~CleanPatternMatch(StripSeparators(shipment.awb))
         THEN <<Anomaly("AWB_MISMATCH", "WARNING",
                        Description("non-standard format", <<shipment.awb>>, <<>>),
                        Some(shipment.awb), shipment.source_email_ids)>>
         ELSE <<>>

\* the anomalies one shipment adds (the body of the for loop)
AwbConsistencyOf(shipment) ==
    IF shipment.awb = MISSING
    THEN <<Anomaly("MISSING_AWB", "ERROR", Description("has no AWB", <<>>, <<>>),
                   None, shipment.source_email_ids)>>
    ELSE IF ~CleanPatternMatch(shipment.awb)
         THEN <<Anomaly("AWB_MISMATCH", "WARNING",
                        Description("non-standard format", <<shipment.awb>>, <<>>),
                        Some(shipment.awb), shipment.source_email_ids)>>
         ELSE <<>>

\* mutant: the findings are returned most severe first
RECURSIVE check_awb_consistency_errors_first(_)
check_awb_consistency_errors_first(ss) ==
    IF ss = <<>> THEN <<>>
    ELSE LET found == AwbConsistencyOf(Head(ss)) \o check_awb_consistency_errors_first(Tail(ss))
         IN  SelectSeq(found, LAMBDA a : a.severity = "ERROR")
             \o SelectSeq(found, LAMBDA a : a.severity # "ERROR")

RECURSIVE check_awb_consistency(_)
check_awb_consistency(ss) ==
    IF ss = <<>> THEN <<>>
    ELSE AwbConsistencyOf(Head(ss)) \o check_awb_consistency(Tail(ss))

----------------------------------------------------------------------------
(* collections.Counter                                                      *)

\* the keys of Counter(items), in insertion order (first occurrence)
RECURSIVE CounterKeys(_, _)
CounterKeys(items, seen) ==
    IF items = <<>> THEN seen
    ELSE CounterKeys(Tail(items),
                     IF Head(items) \in Range(seen) THEN seen ELSE Append(seen, Head(items)))

\* Counter(items)[x]
CountOf(items, x) == Cardinality({i \in DOMAIN items : items[i] = x})

----------------------------------------------------------------------------
(* check_double_counts                                                     *)

\* mutant: the sentinel is counted like an AWB
TrackedAwbsWithSentinel(ss) == [i \in 1..Len(ss) |-> ss[i].awb]

\* [s.awb for s in shipments if s.awb != "MISSING"]
TrackedAwbs(ss) ==
    LET kept == SelectSeq(ss, LAMBDA s : s.awb # MISSING)
    IN  [i \in 1..Len(kept) |-> kept[i].awb]

\* dupes = [s for s in shipments if s.awb == awb]
Dupes(ss, awb) == SelectSeq(ss, LAMBDA s : s.awb = awb)

\* mutant: the key is compared as written
LineKeyVerbatim(line) == <<line.customer_name, line.species>>

\* key = (line.customer_name.lower(), line.species.lower())
LineKey(line) == <<Lower(line.customer_name), Lower(line.species)>>

\* all_lines: the key of every line of every shipment of dupes, in order
RECURSIVE AllLines(_)
AllLines(dupes) ==
    IF dupes = <<>> THEN <<>>
    ELSE [i \in 1..Len(Head(dupes).lines) |-> LineKey(Head(dupes).lines[i])]
         \o AllLines(Tail(dupes))

\* duplicate_lines = {k: v for k, v in line_counts.items() if v > 1} (its keys)
DuplicateLines(all_lines) == {k \in Range(all_lines) : CountOf(all_lines, k) > 1}

\* [eid for s in dupes for eid in s.source_email_ids]
RECURSIVE RelatedEmails(_)
RelatedEmails(dupes) ==
    IF dupes = <<>> THEN <<>>
    ELSE Head(dupes).source_email_ids \o RelatedEmails(Tail(dupes))

\* mutant: any line at all makes the repeat an ERROR
DoubleCountSeverityAnyLine(dupes) ==
    IF AllLines(dupes) # <<>> THEN "ERROR" ELSE "WARNING"

\* the severity of the anomaly for a repeated AWB: if duplicate_lines ... else
DoubleCountSeverity(dupes) ==
    IF DuplicateLines(AllLines(dupes)) # {} THEN "ERROR" ELSE "WARNING"

\* desc_parts, "{k[0]}/{k[1]} (x{v})" for each duplicated key in the order of
\* line_counts: the strings k[0], k[1] and the numbers v
RECURSIVE DescPartStrs(_, _)
DescPartStrs(keys, all_lines) ==
    IF keys = <<>> THEN <<>>
    ELSE (IF CountOf(all_lines, Head(keys)) > 1 THEN Head(keys) ELSE <<>>)
         \o DescPartStrs(Tail(keys), all_lines)

RECURSIVE DescPartNums(_, _)
DescPartNums(keys, all_lines) ==
    IF keys = <<>> THEN <<>>
    ELSE (IF CountOf(all_lines, Head(keys)) > 1 THEN <<CountOf(all_lines, Head(keys))>> ELSE <<>>)
         \o DescPartNums(Tail(keys), all_lines)

DoubleCountDescription(awb, count, dupes) ==
    LET all_lines == AllLines(dupes)
        keys == CounterKeys(all_lines, <<>>)
    IN  IF DuplicateLines(all_lines) # {}
        THEN Description("duplicate line items",
                         <<awb>> \o DescPartStrs(keys, all_lines),
                         <<count>> \o DescPartNums(keys, all_lines))
        ELSE Description("different line items", <<awb>>, <<count>>)

\* mutant: an AWB carried by a single shipment is examined too
DoubleCountOfEveryAwb(ss, awb) ==
    LET count == CountOf(TrackedAwbs(ss), awb)
        dupes == Dupes(ss, awb)
    IN  IF count < 1 THEN <<>>
        ELSE <<Anomaly("DOUBLE_COUNT", DoubleCountSeverity(dupes),
                       DoubleCountDescription(awb, count, dupes),
                       Some(awb), RelatedEmails(dupes))>>

\* the body of the loop over awb_counts.items()
DoubleCountOf(ss, awb) ==
    LET count == CountOf(TrackedAwbs(ss), awb)
        dupes == Dupes(ss, awb)
    IN  IF count <= 1 THEN <<>>
        ELSE <<Anomaly("DOUBLE_COUNT", DoubleCountSeverity(dupes),
                       DoubleCountDescription(awb, count, dupes),
                       Some(awb), RelatedEmails(dupes))>>

RECURSIVE DoubleCountLoop(_, _)
DoubleCountLoop(ss, keys) ==
    IF keys = <<>> THEN <<>>
    ELSE DoubleCountOf(ss, Head(keys)) \o DoubleCountLoop(ss, Tail(keys))

check_double_counts(ss) == DoubleCountLoop(ss, CounterKeys(TrackedAwbs(ss), <<>>))

----------------------------------------------------------------------------
(* check_missing_paperwork                                                 *)

\* \b at position i (between text[i-1] and text[i]); outside the text is no word character
WordBoundary(text, i) ==
    LET before == i - 1 \in DOMAIN text /\ IsWordChar(text[i - 1])
        after  == i \in DOMAIN text /\ IsWordChar(text[i])
    IN  before # after

DigitsAt(text, i, n) == \A j \in i..(i + n - 1) : j \in DOMAIN text /\ IsDigit(text[j])

\* [-\s]? at position i: the position after it.  The separator is taken when
\* there is one; leaving it would need a digit in its place, so no other
\* alternative of the pattern can match.
SkipSeparator(text, i) == IF i \in DOMAIN text /\ IsSeparator(text[i]) THEN i + 1 ELSE i

\* AWB_PATTERN = r"\b(\d{3}[-\s]?\d{4}[-\s]?\d{4})\b" tried at position i:
\* the position after the match, or 0 when there is no match at i
AwbMatchEnd(text, i) ==
    LET g2 == SkipSeparator(text, i + 3)
        g3 == SkipSeparator(text, g2 + 4)
        e  == g3 + 4
    IN  IF /\ WordBoundary(text, i)
           /\ DigitsAt(text, i, 3)
           /\ DigitsAt(text, g2, 4)
           /\ DigitsAt(text, g3, 4)
           /\ WordBoundary(text, e)
        THEN e ELSE 0

\* re.findall(AWB_PATTERN, text) from position i: leftmost matches, each
\* search resuming where the previous match ended
RECURSIVE FindAllAwbs(_, _)
FindAllAwbs(text, i) ==
    IF i > Len(text) THEN <<>>
    ELSE LET e == AwbMatchEnd(text, i)
         IN  IF e = 0 THEN FindAllAwbs(text, i + 1)
             ELSE <<SubSeq(text, i, e - 1)>> \o FindAllAwbs(text, e)

\* text = email.body_text + " " + email.subject
EmailText(email) == email.body_text \o <<" ">> \o email.subject

\* mentioned_awbs of one email, separators removed
MentionedAwbs(email) ==
    LET raw == FindAllAwbs(EmailText(email), 1)
    IN  [i \in 1..Len(raw) |-> StripSeparators(raw[i])]

\* extracted_awbs = {s.awb for s in shipments if s.awb != "MISSING"}
ExtractedAwbs(ss) == {ss[i].awb : i \in {j \in DOMAIN ss : ss[j].awb # MISSING}}

\* mutant: an AWB mentioned several times in one email is reported once
MissingPaperworkOfDeduplicated(email, extracted) ==
    LET unknown == SelectSeq(CounterKeys(MentionedAwbs(email), <<>>), LAMBDA a : a \notin extracted)
    IN  [i \in 1..Len(unknown) |->
            Anomaly("MISSING_PAPERWORK", "WARNING",
                    Description("mentions AWB", <<email.subject, unknown[i]>>, <<>>),
                    Some(unknown[i]), <<email.message_id>>)]

\* the anomalies of one email: one per mentioned AWB that was not extracted
MissingPaperworkOf(email, extracted) ==
    LET unknown == SelectSeq(MentionedAwbs(email), LAMBDA a : a \notin extracted)
    IN  [i \in 1..Len(unknown) |->
            Anomaly("MISSING_PAPERWORK", "WARNING",
                    Description("mentions AWB", <<email.subject, unknown[i]>>, <<>>),
                    Some(unknown[i]), <<email.message_id>>)]

RECURSIVE MissingPaperworkLoop(_, _)
MissingPaperworkLoop(es, extracted) ==
    IF es = <<>> THEN <<>>
    ELSE MissingPaperworkOf(Head(es), extracted) \o MissingPaperworkLoop(Tail(es), extracted)

\* mutant: nothing is looked for when no shipment was extracted
check_missing_paperwork_guarded(es, ss) ==
    IF ss = <<>> THEN <<>> ELSE MissingPaperworkLoop(es, ExtractedAwbs(ss))

check_missing_paperwork(es, ss) == MissingPaperworkLoop(es, ExtractedAwbs(ss))

----------------------------------------------------------------------------
(* check_weight_outliers                                                   *)

\* rough weight ranges per species, <<min, max>> in lbs
SPECIES_WEIGHT_RANGES ==
    (<<"s","w","o","r","d","f","i","s","h">> :> <<40, 500>>) @@
    (<<"y","e","l","l","o","w","t","a","i","l">> :> <<5, 200>>) @@
    (<<"y","e","l","l","o","w","f","i","n"," ","t","u","n","a">> :> <<20, 400>>) @@
    (<<"b","i","g","e","y","e"," ","t","u","n","a">> :> <<20, 500>>) @@
    (<<"a","l","b","a","c","o","r","e"," ","t","u","n","a">> :> <<10, 200>>) @@
    (<<"b","l","a","c","k"," ","g","r","o","u","p","e","r">> :> <<5, 150>>) @@
    (<<"s","a","l","m","o","n">> :> <<5, 150>>) @@
    (<<"s","n","a","p","p","e","r">> :> <<5, 100>>) @@
    (<<"r","e","d"," ","s","n","a","p","p","e","r">> :> <<5, 100>>) @@
    (<<"t","i","l","e","f","i","s","h">> :> <<5, 100>>) @@
    (<<"o","p","a","h">> :> <<20, 300>>) @@
    (<<"m","a","h","i"," ","m","a","h","i">> :> <<5, 150>>)

\* mutant: the bounds of the range count as outside
OutsideRangeInclusive(weight, range) == weight <= range[1] \/ weight >= range[2]

\* line.weight_lbs < min_w or line.weight_lbs > max_w
OutsideRange(weight, range) == weight < range[1] \/ weight > range[2]

\* whether the line is flagged: weight known, species in the table, weight outside
IsWeightOutlier(line) ==
    /\ line.weight_lbs # None
    /\ Lower(line.species) \in DOMAIN SPECIES_WEIGHT_RANGES
    /\ OutsideRange(line.weight_lbs[1], SPECIES_WEIGHT_RANGES[Lower(line.species)])

\* the inner loop, over the lines of one shipment
WeightOutliersOf(shipment) ==
    LET flagged == SelectSeq(shipment.lines, IsWeightOutlier)
    IN  [i \in 1..Len(flagged) |->
            Anomaly("WEIGHT_OUTLIER", "WARNING",
                    Description("outside typical range",
                                <<shipment.awb, flagged[i].species, flagged[i].customer_name>>,
                                <<flagged[i].weight_lbs[1]>>
                                \o SPECIES_WEIGHT_RANGES[Lower(flagged[i].species)]),
                    Some(shipment.awb), shipment.source_email_ids)]

RECURSIVE check_weight_outliers(_)
check_weight_outliers(ss) ==
    IF ss = <<>> THEN <<>>
    ELSE WeightOutliersOf(Head(ss)) \o check_weight_outliers(Tail(ss))

----------------------------------------------------------------------------
(* run_all_checks                                                          *)

\* list.extend
Extend(list, more) == list \o more

\* mutant: the AWB-consistency check runs before the missing-paperwork check
run_all_checks_reordered(es, ss) ==
    Extend(Extend(Extend(Extend(<<>>, check_double_counts(ss)),
                         check_awb_consistency(ss)),
                  check_missing_paperwork(es, ss)),
           check_weight_outliers(ss))

run_all_checks(es, ss) ==
    Extend(Extend(Extend(Extend(<<>>, check_double_counts(ss)),
                         check_missing_paperwork(es, ss)),
                  check_awb_consistency(ss)),
           check_weight_outliers(ss))

----------------------------------------------------------------------------
(* Dates and their ISO form (datetime.date.isoformat, and the parsing of   *)
(* "YYYY-MM-DD" when a payload is validated).                              *)

Date(y, m, d) == [year |-> y, month |-> m, day |-> d]

DigitSeq == <<"0","1","2","3","4","5","6","7","8","9">>

\* 10 ** n
RECURSIVE Pow10(_)
Pow10(n) == IF n = 0 THEN 1 ELSE 10 * Pow10(n - 1)

\* n in decimal without sign, as short as possible
RECURSIVE DecimalDigits(_)
DecimalDigits(n) ==
    IF n < 10 THEN <<DigitSeq[n + 1]>>
    ELSE Append(DecimalDigits(n \div 10), DigitSeq[(n % 10) + 1])

\* mutant: no zero padding
Unpadded(n, width) == DecimalDigits(n)

\* "%0<width>d" % n
ZeroPadded(n, width) ==
    LET ds == DecimalDigits(n)
    IN  IF Len(ds) >= width THEN ds
        ELSE [i \in 1..(width - Len(ds)) |-> "0"] \o ds

isoformat(d) ==
    ZeroPadded(d.year, 4) \o <<"-">> \o ZeroPadded(d.month, 2) \o <<"-">> \o ZeroPadded(d.day, 2)

DigitValue(c) == CHOOSE n \in 0..9 : DigitSeq[n + 1] = c

RECURSIVE NumberOf(_)
NumberOf(s) ==
    IF s = <<>> THEN 0
    ELSE 10 * NumberOf(SubSeq(s, 1, Len(s) - 1)) + DigitValue(s[Len(s)])

DaysInMonth(y, m) ==
    IF m = 2 THEN (IF (y % 4 = 0 /\ y % 100 # 0) \/ y % 400 = 0 THEN 29 ELSE 28)
    ELSE IF m \in {4, 6, 9, 11} THEN 30 ELSE 31

\* the text is YYYY-MM-DD and names a day of the calendar
IsIsoDate(s) ==
    /\ Len(s) = 10
    /\ s[5] = "-" /\ s[8] = "-"
    /\ \A i \in {1, 2, 3, 4, 6, 7, 9, 10} : IsDigit(s[i])
    /\ LET y == NumberOf(SubSeq(s, 1, 4))
           m == NumberOf(SubSeq(s, 6, 7))
           d == NumberOf(SubSeq(s, 9, 10))
       IN  y >= 1 /\ m \in 1..12 /\ d >= 1 /\ d <= DaysInMonth(y, m)

fromisoformat(s) ==
    Date(NumberOf(SubSeq(s, 1, 4)), NumberOf(SubSeq(s, 6, 7)), NumberOf(SubSeq(s, 9, 10)))

----------------------------------------------------------------------------
(* JSON values as model_dump(mode="json") produces them and as the models  *)
(* validate them: null, an integer, a float, a string.  Weights are whole  *)
(* numbers of pounds, for which float addition is exact; an enum value and *)
(* a message id are strings whose characters are not spelled out.          *)

JNull == [t |-> "null", n |-> 0, s |-> <<>>]
JInt(x) == [t |-> "int", n |-> x, s |-> <<>>]
JFloat(x) == [t |-> "float", n |-> x, s |-> <<>>]
JStr(x) == [t |-> "str", n |-> 0, s |-> x]

\* field types of the record model
IsStr(v) == v.t = "str"
IsOptStr(v) == v.t \in {"null", "str"}
IsInt(v) == v.t = "int"
IsOptInt(v) == v.t \in {"null", "int"}
IsFloat(v) == v.t \in {"int", "float"}
IsOptFloat(v) == v.t \in {"null", "int", "float"}

OptStrOf(v) == IF v.t = "null" THEN None ELSE Some(v.s)
OptNumOf(v) == IF v.t = "null" THEN None ELSE Some(v.n)
OptStrJson(o) == IF o = None THEN JNull ELSE JStr(o[1])
OptIntJson(o) == IF o = None THEN JNull ELSE JInt(o[1])
OptFloatJson(o) == IF o = None THEN JNull ELSE JFloat(o[1])

----------------------------------------------------------------------------
(* ShipmentLine(kwargs): the fields are validated against their declared   *)
(* types; customer_name and species are required strings, the others are   *)
(* optional.  No field carries a constraint on its value.                  *)

ShipmentLineAccepts(kwargs) ==
    /\ IsStr(kwargs.customer_name)
    /\ IsOptStr(kwargs.company)
    /\ IsStr(kwargs.species)
    /\ IsOptInt(kwargs.boxes)
    /\ IsOptFloat(kwargs.weight_lbs)

ShipmentLineOf(kwargs) ==
    [customer_name |-> kwargs.customer_name.s, company |-> OptStrOf(kwargs.company),
     species |-> kwargs.species.s, boxes |-> OptNumOf(kwargs.boxes),
     weight_lbs |-> OptNumOf(kwargs.weight_lbs)]

ShipmentLineJson(line) ==
    [customer_name |-> JStr(line.customer_name), company |-> OptStrJson(line.company),
     species |-> JStr(line.species), boxes |-> OptIntJson(line.boxes),
     weight_lbs |-> OptFloatJson(line.weight_lbs)]

----------------------------------------------------------------------------
(* ShipmentTotals and DailyPayload.compute_totals.  A dict is the sequence *)
(* of its entries in insertion order.                                      *)

SpeciesTotal(k) == [key |-> k, boxes |-> 0, weight_lbs |-> 0]

CustomerTotal(k) == [key |-> k, boxes |-> 0, weight_lbs |-> 0, order_count |-> 0]

ShipmentTotals(b, w, sp, cu) ==
    [total_boxes |-> b, total_weight_lbs |-> w, species_breakdown |-> sp,
     customer_breakdown |-> cu]

\* the default of the totals field
NoTotals == ShipmentTotals(0, 0, <<>>, <<>>)

\* run_timestamp is the clock of the run and is not modelled
DailyPayload(d, n, ss, found) ==
    [date |-> d, emails_processed |-> n, shipments |-> ss, anomalies |-> found,
     totals |-> NoTotals]

\* x or 0
OrZero(x) == IF x = None THEN 0 ELSE x[1]

\* dict.setdefault(k, default): the dict, with default under k if k was not a key
SetDefault(dict, k, default) ==
    IF \E i \in DOMAIN dict : dict[i].key = k THEN dict ELSE Append(dict, default)

IndexOf(dict, k) == CHOOSE i \in DOMAIN dict : dict[i].key = k

\* mutant: the species is normalised before it is used as a key
SpeciesKeyLowered(line) == Lower(line.species)

SpeciesKey(line) == line.species

\* mutant: the customer name is the key of every line
CustomerKeyByName(line) == line.customer_name

\* line.company or line.customer_name
CustomerKey(line) ==
    IF line.company = None \/ line.company[1] = <<>>
    THEN line.customer_name
    ELSE line.company[1]

\* mutant: a line without weight is left out of the box count as well
LineBoxesIfWeighed(line) == IF line.weight_lbs = None THEN 0 ELSE OrZero(line.boxes)

LineBoxes(line) == OrZero(line.boxes)

LineWeight(line) == OrZero(line.weight_lbs)

\* the body of the loop over the lines
AddLine(acc, line) ==
    LET boxes == LineBoxes(line)
        weight == LineWeight(line)
        species == SetDefault(acc.species_breakdown, SpeciesKey(line),
                              SpeciesTotal(SpeciesKey(line)))
        sp == IndexOf(species, SpeciesKey(line))
        customers == SetDefault(acc.customer_breakdown, CustomerKey(line),
                                CustomerTotal(CustomerKey(line)))
        ct == IndexOf(customers, CustomerKey(line))
    IN  ShipmentTotals(
            acc.total_boxes + boxes,
            acc.total_weight_lbs + weight,
            [species EXCEPT ![sp].boxes = @ + boxes, ![sp].weight_lbs = @ + weight],
            [customers EXCEPT ![ct].boxes = @ + boxes, ![ct].weight_lbs = @ + weight,
                              ![ct].order_count = @ + 1])

RECURSIVE AddLines(_, _)
AddLines(acc, lines) ==
    IF lines = <<>> THEN acc ELSE AddLines(AddLine(acc, Head(lines)), Tail(lines))

RECURSIVE AddShipments(_, _)
AddShipments(acc, ss) ==
    IF ss = <<>> THEN acc ELSE AddShipments(AddLines(acc, Head(ss).lines), Tail(ss))

\* mutant: the lines are added to the totals the payload already holds
compute_totals_incremental(self) ==
    [self EXCEPT !.totals = AddShipments(self.totals, self.shipments)]

\* mutant: an absent box count or weight is written back as zero
compute_totals_normalising(self) ==
    [self EXCEPT
        !.totals = AddShipments(NoTotals, self.shipments),
        !.shipments = [i \in DOMAIN self.shipments |->
            [self.shipments[i] EXCEPT !.lines = [j \in DOMAIN self.shipments[i].lines |->
                [self.shipments[i].lines[j] EXCEPT
                    !.boxes = Some(OrZero(@)), !.weight_lbs = Some(OrZero(@))]]]]]

\* the payload after the call
compute_totals(self) == [self EXCEPT !.totals = AddShipments(NoTotals, self.shipments)]

----------------------------------------------------------------------------
(* model_dump(mode="json") and the validation of DailyPayload(data).       *)

ShipmentJson(s) ==
    [awb |-> JStr(s.awb),
     lines |-> [j \in DOMAIN s.lines |-> ShipmentLineJson(s.lines[j])],
     source_email_ids |-> [j \in DOMAIN s.source_email_ids |-> JStr(s.source_email_ids[j])]]

ShipmentAccepts(data) ==
    /\ IsStr(data.awb)
    /\ \A j \in DOMAIN data.lines : ShipmentLineAccepts(data.lines[j])
    /\ \A j \in DOMAIN data.source_email_ids : IsStr(data.source_email_ids[j])

ShipmentOf(data) ==
    Shipment(data.awb.s,
             [j \in DOMAIN data.lines |-> ShipmentLineOf(data.lines[j])],
             [j \in DOMAIN data.source_email_ids |-> data.source_email_ids[j].s])

AnomalyTypes ==
    {"DOUBLE_COUNT", "MISSING_PAPERWORK", "AWB_MISMATCH", "WEIGHT_OUTLIER",
     "MISSING_AWB", "MISSING_DATA"}

Severities == {"WARNING", "ERROR"}

\* the description is a string; it is carried in its structured form
AnomalyJson(a) ==
    [anomaly_type |-> JStr(a.anomaly_type), severity |-> JStr(a.severity),
     description |-> a.description, related_awb |-> OptStrJson(a.related_awb),
     related_emails |-> [j \in DOMAIN a.related_emails |-> JStr(a.related_emails[j])]]

AnomalyAccepts(data) ==
    /\ IsStr(data.anomaly_type) /\ data.anomaly_type.s \in AnomalyTypes
    /\ IsStr(data.severity) /\ data.severity.s \in Severities
    /\ IsOptStr(data.related_awb)
    /\ \A j \in DOMAIN data.related_emails : IsStr(data.related_emails[j])

AnomalyOf(data) ==
    Anomaly(data.anomaly_type.s, data.severity.s, data.description,
            OptStrOf(data.related_awb),
            [j \in DOMAIN data.related_emails |-> data.related_emails[j].s])

SpeciesTotalJson(e) == [key |-> e.key, boxes |-> JInt(e.boxes), weight_lbs |-> JFloat(e.weight_lbs)]

CustomerTotalJson(e) ==
    [key |-> e.key, boxes |-> JInt(e.boxes), weight_lbs |-> JFloat(e.weight_lbs),
     order_count |-> JInt(e.order_count)]

ShipmentTotalsJson(t) ==
    [total_boxes |-> JInt(t.total_boxes), total_weight_lbs |-> JFloat(t.total_weight_lbs),
     species_breakdown |->
        [i \in DOMAIN t.species_breakdown |-> SpeciesTotalJson(t.species_breakdown[i])],
     customer_breakdown |->
        [i \in DOMAIN t.customer_breakdown |-> CustomerTotalJson(t.customer_breakdown[i])]]

ShipmentTotalsAccepts(data) ==
    /\ IsInt(data.total_boxes) /\ IsFloat(data.total_weight_lbs)
    /\ \A i \in DOMAIN data.species_breakdown :
          IsInt(data.species_breakdown[i].boxes) /\ IsFloat(data.species_breakdown[i].weight_lbs)
    /\ \A i \in DOMAIN data.customer_breakdown :
          /\ IsInt(data.customer_breakdown[i].boxes)
          /\ IsFloat(data.customer_breakdown[i].weight_lbs)
          /\ IsInt(data.customer_breakdown[i].order_count)

ShipmentTotalsOf(data) ==
    ShipmentTotals(
        data.total_boxes.n, data.total_weight_lbs.n,
        [i \in DOMAIN data.species_breakdown |->
            [key |-> data.species_breakdown[i].key,
             boxes |-> data.species_breakdown[i].boxes.n,
             weight_lbs |-> data.species_breakdown[i].weight_lbs.n]],
        [i \in DOMAIN data.customer_breakdown |->
            [key |-> data.customer_breakdown[i].key,
             boxes |-> data.customer_breakdown[i].boxes.n,
             weight_lbs |-> data.customer_breakdown[i].weight_lbs.n,
             order_count |-> data.customer_breakdown[i].order_count.n]])

model_dump(p) ==
    [date |-> JStr(isoformat(p.date)),
     emails_processed |-> JInt(p.emails_processed),
     shipments |-> [i \in DOMAIN p.shipments |-> ShipmentJson(p.shipments[i])],
     anomalies |-> [i \in DOMAIN p.anomalies |-> AnomalyJson(p.anomalies[i])],
     totals |-> ShipmentTotalsJson(p.totals)]

DailyPayloadAccepts(data) ==
    /\ IsStr(data.date) /\ IsIsoDate(data.date.s)
    /\ IsInt(data.emails_processed)
    /\ \A i \in DOMAIN data.shipments : ShipmentAccepts(data.shipments[i])
    /\ \A i \in DOMAIN data.anomalies : AnomalyAccepts(data.anomalies[i])
    /\ ShipmentTotalsAccepts(data.totals)

\* DailyPayload(data): the payload, or None for a ValidationError
DailyPayloadOf(data) ==
    IF DailyPayloadAccepts(data)
    THEN Some([date |-> fromisoformat(data.date.s),
               emails_processed |-> data.emails_processed.n,
               shipments |-> [i \in DOMAIN data.shipments |-> ShipmentOf(data.shipments[i])],
               anomalies |-> [i \in DOMAIN data.anomalies |-> AnomalyOf(data.anomalies[i])],
               totals |-> ShipmentTotalsOf(data.totals)])
    ELSE None

----------------------------------------------------------------------------
(* LocalStorage (storage/local.py): files maps a path of the processed     *)
(* directory to the JSON document the file holds, None when no such file.  *)

\* mutant: one file per year
payload_path_yearly(d) == ZeroPadded(d.year, 4) \o <<".","j","s","o","n">>

payload_path(d) == isoformat(d) \o <<".","j","s","o","n">>

\* the dates of the runs
DatePool == {Date(2026, 2, 23), Date(2026, 11, 5)}

Paths == {payload_path(d) : d \in DatePool}

NoFiles == [path \in Paths |-> None]

save_daily_payload(fs, p) == [fs EXCEPT ![payload_path(p.date)] = Some(model_dump(p))]

load_daily_payload(fs, d) ==
    IF fs[payload_path(d)] = None THEN None ELSE DailyPayloadOf(fs[payload_path(d)][1])

----------------------------------------------------------------------------
(* SheetsStorage (storage/sheets.py): the spreadsheet is a record of the   *)
(* data rows of four tabs, the header row of a tab aside.  A cell is a     *)
(* JSON value; the columns Supplier, Size Category, Count/Box, Notes and   *)
(* Timestamp are not modelled.  What the spreadsheet service makes of a    *)
(* cell entered as USER_ENTERED is outside the program.                    *)

\* the characters of the strings used here, in code point order
CodePointOrder ==
    <<"\n", " ", "'", ",", "-", ".">> \o <<"0","1","2","3","4","5","6","7","8","9">>
    \o UpperLetters \o <<"_">> \o LowerLetters

CodePoint(c) == CHOOSE i \in DOMAIN CodePointOrder : CodePointOrder[i] = c

\* a < b for two str values
RECURSIVE StrLess(_, _)
StrLess(a, b) ==
    IF b = <<>> THEN FALSE
    ELSE IF a = <<>> THEN TRUE
    ELSE IF Head(a) = Head(b) THEN StrLess(Tail(a), Tail(b))
    ELSE CodePoint(Head(a)) < CodePoint(Head(b))

\* sorted(S) for a set of str values
RECURSIVE Sorted(_)
Sorted(S) ==
    IF S = {} THEN <<>>
    ELSE LET least == CHOOSE x \in S : \A y \in S \ {x} : StrLess(x, y)
         IN  <<least>> \o Sorted(S \ {least})

\* sep.join(parts)
RECURSIVE Join(_, _)
Join(parts, sep) ==
    IF parts = <<>> THEN <<>>
    ELSE IF Len(parts) = 1 THEN parts[1]
    ELSE parts[1] \o sep \o Join(Tail(parts), sep)

\* x if x is not None else ""
IntOrEmpty(o) == IF o = None THEN JStr(<<>>) ELSE JInt(o[1])
FloatOrEmpty(o) == IF o = None THEN JStr(<<>>) ELSE JFloat(o[1])

\* x or ""
StrOrEmpty(o) == IF o = None THEN JStr(<<>>) ELSE JStr(o[1])

\* the lines of a shipment list, shipment by shipment
RECURSIVE ShipmentRowsOf(_, _)
ShipmentRowsOf(d, ss) ==
    IF ss = <<>> THEN <<>>
    ELSE [j \in DOMAIN Head(ss).lines |->
             LET line == Head(ss).lines[j]
             IN  [Date |-> JStr(isoformat(d)), AWB |-> JStr(Head(ss).awb),
                  Customer |-> JStr(line.customer_name),
                  Company |-> StrOrEmpty(line.company),
                  Species |-> JStr(line.species),
                  Boxes |-> IntOrEmpty(line.boxes),
                  Weight |-> FloatOrEmpty(line.weight_lbs)]]
         \o ShipmentRowsOf(d, Tail(ss))

\* rows is appended to the rows of the tab (ws.append_rows, ws.append_row)
append_rows(sheet, tab, rows) == [sheet EXCEPT ![tab] = @ \o rows]

append_shipment_rows(sheet, p) ==
    append_rows(sheet, "Shipments", ShipmentRowsOf(p.date, p.shipments))

update_daily_summary(sheet, p) ==
    append_rows(sheet, "DailySummary",
                <<[Date |-> JStr(isoformat(p.date)),
                   EmailsProcessed |-> JInt(p.emails_processed),
                   Shipments |-> JInt(Len(p.shipments)),
                   TotalBoxes |-> JInt(p.totals.total_boxes),
                   TotalWeight |-> JFloat(p.totals.total_weight_lbs),
                   Anomalies |-> JInt(Len(p.anomalies))]>>)

\* total_weight += line.weight_lbs or 0.0 over the lines of one shipment
RECURSIVE ShipmentWeight(_)
ShipmentWeight(ls) ==
    IF ls = <<>> THEN 0 ELSE ShipmentWeight(SubSeq(ls, 1, Len(ls) - 1)) + LineWeight(ls[Len(ls)])

\* drive_links.get(shipment.awb, [])
LinksOf(drive_links, awb) ==
    IF \E i \in DOMAIN drive_links : drive_links[i].key = awb
    THEN drive_links[IndexOf(drive_links, awb)].urls
    ELSE <<>>

AwbLogRow(d, shipment, drive_links) ==
    [Date |-> JStr(isoformat(d)), AWB |-> JStr(shipment.awb),
     CustomerCount |-> JInt(Cardinality({CustomerKey(shipment.lines[j]) : j \in DOMAIN shipment.lines})),
     TotalWeight |-> JFloat(ShipmentWeight(shipment.lines)),
     SpeciesList |-> JStr(Join(Sorted({shipment.lines[j].species : j \in DOMAIN shipment.lines}),
                               <<",", " ">>)),
     DriveLinks |-> JStr(Join(LinksOf(drive_links, shipment.awb), <<",", " ">>))]

update_awb_log(sheet, p, drive_links) ==
    append_rows(sheet, "AwbLog",
                [i \in DOMAIN p.shipments |-> AwbLogRow(p.date, p.shipments[i], drive_links)])

\* nothing is appended, and the tab is not looked up, when there is no anomaly
log_anomalies(sheet, p) ==
    IF p.anomalies = <<>> THEN sheet
    ELSE append_rows(sheet, "Anomalies",
                     [i \in DOMAIN p.anomalies |->
                         [Date |-> JStr(isoformat(p.date)),
                          Type |-> JStr(p.anomalies[i].anomaly_type),
                          Severity |-> JStr(p.anomalies[i].severity),
                          Description |-> p.anomalies[i].description,
                          RelatedAwb |-> StrOrEmpty(p.anomalies[i].related_awb)]])

push_full_payload(sheet, p, drive_links) ==
    log_anomalies(
        update_awb_log(
            update_daily_summary(append_shipment_rows(sheet, p), p),
            p, drive_links),
        p)

----------------------------------------------------------------------------
(* The regex first-pass parser (email/parser.py) and its vocabulary        *)
(* (config.py).  A call either returns a value or raises: the result is    *)
(* [raised, value], value being meaningless when raised.                   *)

\* KNOWN_CUSTOMERS, in insertion order
KNOWN_CUSTOMERS ==
    <<[contact |-> <<"m","a","r","k">>,
       company |-> <<"M","a","r","k","'","s"," ","S","e","a","f","o","o","d">>],
      [contact |-> <<"c","h","a","d","e">>,
       company |-> <<"L","o","c","k","w","o","o","d","-","W","i","n","a","n","t">>],
      [contact |-> <<"b","r","y","a","n">>,
       company |-> <<"G","o","s","m","a","n","'","s"," ","F","i","s","h"," ","M","a","r","k","e","t">>],
      [contact |-> <<"r","i","c","h","i","e">>,
       company |-> <<"C","o","n","g","r","e","s","s","i","o","n","a","l">>],
      [contact |-> <<"a","m","o","s">>,
       company |-> <<"C","o","n","g","r","e","s","s","i","o","n","a","l">>],
      [contact |-> <<"j","o","s","e","p","h">>,
       company |-> <<"S","a","m","u","e","l","s"," ","S","e","a","f","o","o","d">>],
      [contact |-> <<"r","o","b","b","y">>,
       company |-> <<"G","r","e","a","t"," ","E","a","s","t","e","r","n">>],
      [contact |-> <<"m","i","k","e">>,
       company |-> <<"B","S","T"," ","S","e","a","f","o","o","d">>],
      [contact |-> <<"b","o","b">>,
       company |-> <<"B","S","T"," ","S","e","a","f","o","o","d">>],
      [contact |-> <<"m","a","n","n","y">>,
       company |-> <<"S","t","a","v","i","s">>],
      [contact |-> <<"t","o","m">>,
       company |-> <<"E","m","e","r","a","l","d"," ","S","e","a","f","o","o","d">>],
      [contact |-> <<"j","a","m","e","s">>,
       company |-> <<"E","m","e","r","a","l","d"," ","S","e","a","f","o","o","d">>],
      [contact |-> <<"j","o","h","n">>,
       company |-> <<"E","m","e","r","a","l","d"," ","S","e","a","f","o","o","d">>],
      [contact |-> <<"v","i","n","n","y">>,
       company |-> <<"B","A"," ","S","e","a","f","o","o","d">>]>>

KNOWN_SPECIES ==
    <<<<"s","w","o","r","d","f","i","s","h">>,
      <<"y","e","l","l","o","w","t","a","i","l">>,
      <<"b","l","a","c","k"," ","g","r","o","u","p","e","r">>,
      <<"y","e","l","l","o","w","f","i","n"," ","t","u","n","a">>,
      <<"b","i","g","e","y","e"," ","t","u","n","a">>,
      <<"a","l","b","a","c","o","r","e"," ","t","u","n","a">>,
      <<"s","a","l","m","o","n">>,
      <<"s","n","a","p","p","e","r">>,
      <<"r","e","d"," ","s","n","a","p","p","e","r">>,
      <<"y","e","l","l","o","w","t","a","i","l"," ","s","n","a","p","p","e","r">>,
      <<"m","u","t","t","o","n"," ","s","n","a","p","p","e","r">>,
      <<"t","i","l","e","f","i","s","h">>,
      <<"o","p","a","h">>,
      <<"m","a","h","i"," ","m","a","h","i">>,
      <<"w","a","h","o","o">>,
      <<"c","o","b","i","a">>,
      <<"s","t","r","i","p","e","d"," ","b","a","s","s">>>>

Returned(v) == [raised |-> FALSE, value |-> v]
Raised == [raised |-> TRUE, value |-> <<>>]

\* sub in s
Contains(s, sub) ==
    \E i \in 1..(Len(s) - Len(sub) + 1) : SubSeq(s, i, i + Len(sub) - 1) = sub

\* s[i:].startswith(sub), i counted from 1
StartsWithAt(s, i, sub) ==
    i + Len(sub) - 1 <= Len(s) /\ SubSeq(s, i, i + Len(sub) - 1) = sub

\* mutant: only hyphens are removed from a match
extract_awbs_keeping_whitespace(s) ==
    LET raw == FindAllAwbs(s, 1)
    IN  [m \in DOMAIN raw |-> SelectSeq(raw[m], LAMBDA c : c # "-")]

\* raw = re.findall(AWB_PATTERN, text); re.sub(r"[-\s]", "", awb) for each
extract_awbs(s) ==
    LET raw == FindAllAwbs(s, 1)
    IN  [m \in DOMAIN raw |-> StripSeparators(raw[m])]

\* mutant: every matching contact is reported
RECURSIVE CustomerMentionsOfEveryContact(_, _, _)
CustomerMentionsOfEveryContact(text_lower, i, seen_companies) ==
    IF i > Len(KNOWN_CUSTOMERS) THEN <<>>
    ELSE LET entry == KNOWN_CUSTOMERS[i]
         IN  IF Contains(text_lower, entry.contact)
             THEN <<<<entry.contact, entry.company>>>>
                  \o CustomerMentionsOfEveryContact(text_lower, i + 1, seen_companies)
             ELSE CustomerMentionsOfEveryContact(text_lower, i + 1, seen_companies)

\* the loop of extract_customer_mentions over the vocabulary from entry i
RECURSIVE CustomerMentionsFrom(_, _, _)
CustomerMentionsFrom(text_lower, i, seen_companies) ==
    IF i > Len(KNOWN_CUSTOMERS) THEN <<>>
    ELSE LET entry == KNOWN_CUSTOMERS[i]
         IN  IF Contains(text_lower, entry.contact) /\ entry.company \notin seen_companies
             THEN <<<<entry.contact, entry.company>>>>
                  \o CustomerMentionsFrom(text_lower, i + 1, seen_companies \cup {entry.company})
             ELSE CustomerMentionsFrom(text_lower, i + 1, seen_companies)

extract_customer_mentions(s) == CustomerMentionsFrom(Lower(s), 1, {})

extract_species_mentions(s) ==
    LET text_lower == Lower(s)
    IN  SelectSeq(KNOWN_SPECIES, LAMBDA species : Contains(text_lower, species))

\* the character classes [\d,] and \s
DigitOrComma == Digits \cup {","}
Spaces == {" ", "\t", "\n", "\r"}

\* the position after the longest run of characters of a class from i
RECURSIVE SkipRun(_, _, _)
SkipRun(s, i, class) ==
    IF i \in DOMAIN s /\ s[i] \in class THEN SkipRun(s, i + 1, class) ELSE i

\* a match of a pattern with one group: the position after the match and
\* the text of the group; end = 0 when the pattern does not match
Match(e, g) == [end |-> e, group |-> g]
NoMatch == [end |-> 0, group |-> <<>>]

\* the alternatives of (?:lbs?|pounds?|#) and (?:kg|kilos?|kilograms?) in
\* the order the regex engine tries them
PoundUnits == <<<<"l","b","s">>, <<"l","b">>, <<"p","o","u","n","d","s">>, <<"p","o","u","n","d">>, <<"#">>>>
KiloUnits == <<<<"k","g">>, <<"k","i","l","o","s">>, <<"k","i","l","o">>, <<"k","i","l","o","g","r","a","m","s">>, <<"k","i","l","o","g","r","a","m">>>>
BoxUnits == <<<<"b","o","x","e","s">>, <<"b","x","s">>, <<"b","o","x">>>>

\* the position after the first alternative that matches at i, 0 when none
\* does
RECURSIVE AfterUnit(_, _, _)
AfterUnit(s, i, alts) ==
    IF alts = <<>> THEN 0
    ELSE IF StartsWithAt(s, i, Head(alts)) THEN i + Len(Head(alts))
    ELSE AfterUnit(s, i, Tail(alts))

\* ([\d,]+\.?\d*)\s*(?:unit) tried at position i.  Every quantifier takes
\* the longest run: a shorter run leaves a character that nothing after it
\* in the pattern accepts.
WeightPatternAt(s, i, units) ==
    LET a == SkipRun(s, i, DigitOrComma)
        b == IF a \in DOMAIN s /\ s[a] = "." THEN a + 1 ELSE a
        c == SkipRun(s, b, Digits)
        e == AfterUnit(s, SkipRun(s, c, Spaces), units)
    IN  IF a > i /\ e # 0 THEN Match(e, SubSeq(s, i, c - 1)) ELSE NoMatch

\* the position after the first alternative at i that is followed by \b
RECURSIVE AfterUnitAndBoundary(_, _, _)
AfterUnitAndBoundary(s, i, alts) ==
    IF alts = <<>> THEN 0
    ELSE IF StartsWithAt(s, i, Head(alts)) /\ WordBoundary(s, i + Len(Head(alts)))
         THEN i + Len(Head(alts))
         ELSE AfterUnitAndBoundary(s, i, Tail(alts))

\* (\d+)\s*(?:boxes|bxs|box)\b tried at position i
CountBeforeUnitAt(s, i) ==
    LET a == SkipRun(s, i, Digits)
        e == AfterUnitAndBoundary(s, SkipRun(s, a, Spaces), BoxUnits)
    IN  IF a > i /\ e # 0 THEN Match(e, SubSeq(s, i, a - 1)) ELSE NoMatch

\* \s*[:=]\s*(\d+) after a unit that ends before position i
CountAfter(s, i) ==
    LET d == SkipRun(s, i, Spaces)
        e == SkipRun(s, d + 1, Spaces)
        f == SkipRun(s, e, Digits)
    IN  IF d \in DOMAIN s /\ s[d] \in {":", "="} /\ f > e
        THEN Match(f, SubSeq(s, e, f - 1)) ELSE NoMatch

\* (?:boxes|bxs|box)\s*[:=]\s*(\d+) tried at position i: the first
\* alternative after which the rest of the pattern matches
RECURSIVE CountAfterUnitAt(_, _, _)
CountAfterUnitAt(s, i, alts) ==
    IF alts = <<>> THEN NoMatch
    ELSE IF StartsWithAt(s, i, Head(alts)) /\ CountAfter(s, i + Len(Head(alts))).end # 0
         THEN CountAfter(s, i + Len(Head(alts)))
         ELSE CountAfterUnitAt(s, i, Tail(alts))

PatternAt(pattern, s, i) ==
    CASE pattern = "lbs" -> WeightPatternAt(s, i, PoundUnits)
      [] pattern = "kg" -> WeightPatternAt(s, i, KiloUnits)
      [] pattern = "count unit" -> CountBeforeUnitAt(s, i)
      [] pattern = "unit count" -> CountAfterUnitAt(s, i, BoxUnits)

\* the group of each match of the pattern in s from position i, the
\* matches from left to right, each search starting where the previous
\* match ended
RECURSIVE MatchesFrom(_, _, _)
MatchesFrom(pattern, s, i) ==
    IF i > Len(s) THEN <<>>
    ELSE LET m == PatternAt(pattern, s, i)
         IN  IF m.end = 0 THEN MatchesFrom(pattern, s, i + 1)
             ELSE <<m.group>> \o MatchesFrom(pattern, s, m.end)

\* re.finditer(pattern, text, re.IGNORECASE): the patterns are written in
\* lowercase and their groups hold no letter, so the text is matched in
\* lowercase
FindIter(pattern, s) == MatchesFrom(pattern, Lower(s), 1)

\* match.group(1).replace(",", "")
WithoutCommas(group) == SelectSeq(group, LAMBDA c : c # ",")

\* float(x) raises ValueError unless x holds a digit (x is made of digits
\* and at most one point)
FloatAccepts(x) == \E k \in DOMAIN x : IsDigit(x[k])

\* float(x) as the decimal fraction units / 10^decimals; the rounding to the
\* nearest binary float is not modelled
FloatOf(x) ==
    LET digits == SelectSeq(x, IsDigit)
        point == IF \E k \in DOMAIN x : x[k] = "."
                 THEN CHOOSE k \in DOMAIN x : x[k] = "." ELSE Len(x) + 1
    IN  [units |-> NumberOf(digits), decimals |-> Len(x) + 1 - point - (IF point > Len(x) THEN 0 ELSE 1)]

\* val *= 2.205
KgToLbs(val) == [units |-> val.units * 2205, decimals |-> val.decimals + 3]

\* the weights of the lbs pattern, then those of the kg pattern converted;
\* the first group float() rejects ends the call with ValueError
extract_weights(s) ==
    LET in_lbs == FindIter("lbs", s)
        in_kg == FindIter("kg", s)
        lbs == [m \in DOMAIN in_lbs |-> WithoutCommas(in_lbs[m])]
        kg == [m \in DOMAIN in_kg |-> WithoutCommas(in_kg[m])]
    IN  IF \E m \in DOMAIN lbs : ~FloatAccepts(lbs[m]) THEN Raised
        ELSE IF \E m \in DOMAIN kg : ~FloatAccepts(kg[m]) THEN Raised
        ELSE Returned([m \in DOMAIN lbs |-> FloatOf(lbs[m])]
                      \o [m \in DOMAIN kg |-> KgToLbs(FloatOf(kg[m]))])

\* int(match.group(1)) for the matches of the first pattern, then of the second
extract_box_counts(s) ==
    LET before == FindIter("count unit", s)
        after == FindIter("unit count", s)
    IN  [m \in DOMAIN before |-> NumberOf(before[m])] \o [m \in DOMAIN after |-> NumberOf(after[m])]

\* the dict of the five extractions; an exception of one of them ends the call
first_pass_extract(s) ==
    LET weights == extract_weights(s)
    IN  IF weights.raised THEN Raised
        ELSE Returned([awbs |-> extract_awbs(s),
                       customers |-> extract_customer_mentions(s),
                       species |-> extract_species_mentions(s),
                       weights |-> weights.value,
                       box_counts |-> extract_box_counts(s)])

----------------------------------------------------------------------------
(* The state of the parts of the program a specification leaves alone:     *)
(* nothing saved, an empty spreadsheet, no text parsed, no response, no    *)
(* run started.                                                            *)

NoSaved == [d \in DatePool |-> None]

EmptySpreadsheet == [Shipments |-> <<>>, DailySummary |-> <<>>, AwbLog |-> <<>>, Anomalies |-> <<>>]

NotRunning == [pc |-> "idle"]

----------------------------------------------------------------------------
(* Inputs.  The detector is a set of pure functions of a shipment list and *)
(* an email list; Init draws the two lists from the families below.        *)

MaxDupShipments == 4
MaxAwbShipments == 2
MaxWeightLines == 3
MaxPaperShipments == 2
MaxEmails == 2

SeqUpTo(S, n) == UNION {[1..k -> S] : k \in 0..n}

AWB_A == <<"1","2","3","4","5","6","7","8","9","0","1">>
AWB_B == <<"9","8","7","6","5","4","3","2","1","0","9">>
AWB_HYPHENS == <<"1","2","3","-","4","5","6","7","-","8","9","0","1">>
AWB_SPACES == <<"1","2","3"," ","4","5","6","7"," ","8","9","0","1">>
AWB_SHORT == <<"1","2","3">>
AWB_LONG == <<"1","2","3","4","5","6","7","8","9","0","1","2">>
AWB_NEWLINE == <<"1","2","3","4","5","6","7","8","9","0","1","\n">>

Mark == <<"M","a","r","k">>
mark == <<"m","a","r","k">>
Bob == <<"B","o","b">>
Swordfish == <<"S","w","o","r","d","f","i","s","h">>
SWORDFISH == <<"S","W","O","R","D","F","I","S","H">>
Salmon == <<"S","a","l","m","o","n">>
Wahoo == <<"W","a","h","o","o">>

\* shipments sharing an AWB: the same line twice (the fixture of
\* test_anomaly_detector), the same line in another letter case, another
\* customer, and one shipment that repeats a line itself
DupVariants ==
    { <<<<ShipmentLine(Mark, Swordfish, Some(450))>>, <<"e1">>>>,
      <<<<ShipmentLine(mark, SWORDFISH, None)>>, <<"e1", "e2">>>>,
      <<<<ShipmentLine(Bob, Swordfish, None)>>, <<"e2">>>>,
      <<<<ShipmentLine(Bob, Salmon, None), ShipmentLine(Bob, Salmon, None)>>, <<"e3">>>> }

DupShipmentPool ==
    {Shipment(AWB_A, v[1], v[2]) : v \in DupVariants}
    \cup {Shipment(AWB_B, <<ShipmentLine(Mark, Swordfish, Some(450))>>, <<"e1">>),
          Shipment(AWB_B, <<ShipmentLine(Bob, Swordfish, None)>>, <<"e2">>),
          Shipment(MISSING, <<ShipmentLine(Mark, Swordfish, Some(450))>>, <<"e1">>)}

DupInputs == {<<ss, <<>>>> : ss \in SeqUpTo(DupShipmentPool, MaxDupShipments)}

AwbPool == {AWB_A, MISSING, AWB_HYPHENS, AWB_SPACES, AWB_SHORT, AWB_LONG, AWB_NEWLINE}

AwbShipmentPool == {Shipment(a, <<>>, ids) : a \in AwbPool, ids \in {<<"e1">>, <<"e1", "e2">>}}

AwbInputs == {<<ss, <<>>>> : ss \in SeqUpTo(AwbShipmentPool, MaxAwbShipments)}

\* swordfish is expected between 40 and 500 lbs; wahoo is not in the table
WeightLinePool ==
    {ShipmentLine(Mark, Swordfish, w) : w \in {None, Some(39), Some(40), Some(450), Some(500), Some(501)}}
    \cup {ShipmentLine(Bob, SWORDFISH, Some(5000)), ShipmentLine(Bob, Wahoo, Some(5000))}

\* two shipments, the second without an AWB, with at most MaxWeightLines lines in all
WeightInputs ==
    {LET cut == IF k <= Len(ls) THEN k ELSE Len(ls)
     IN  <<<<Shipment(AWB_A, SubSeq(ls, 1, cut), <<"e1">>),
             Shipment(MISSING, SubSeq(ls, cut + 1, Len(ls)), <<"e2">>)>>, <<>>>> :
        ls \in SeqUpTo(WeightLinePool, MaxWeightLines), k \in 0..MaxWeightLines}

EmailPool ==
    { EmailDetail("m1", <<>>, <<"A","W","B"," ","1","2","3","-","4","5","6","7","-","8","9","0","1">>),
      EmailDetail("m2", <<"R","e",":"," ","9","8","7","6","5","4","3","2","1","0","9">>,
                  <<"1","2","3","4","5","6","7","8","9","0","1"," ","9","8","7","6","5","4","3","2","1","0","9">>),
      EmailDetail("m3", <<"4","5","6","7","-","8","9","0","1">>, <<"1","2","3">>),
      EmailDetail("m4", <<>>, <<"x","1","2","3","4","5","6","7","8","9","0","1">>) }

PaperShipmentPool ==
    { Shipment(AWB_A, <<ShipmentLine(Mark, Swordfish, Some(450))>>, <<"m1">>),
      Shipment(AWB_B, <<ShipmentLine(Bob, Wahoo, Some(5000))>>, <<"m2">>),
      Shipment(AWB_HYPHENS, <<ShipmentLine(Bob, SWORDFISH, Some(5000))>>, <<"m1">>),
      Shipment(MISSING, <<ShipmentLine(Bob, Swordfish, Some(5000))>>, <<"m3">>) }

PaperInputs ==
    {<<ss, es>> : ss \in SeqUpTo(PaperShipmentPool, MaxPaperShipments),
                  es \in SeqUpTo(EmailPool, MaxEmails)}

Inputs == DupInputs \cup AwbInputs \cup WeightInputs \cup PaperInputs

----------------------------------------------------------------------------
(* The state machine: the caller holds a shipment list and an email list   *)
(* and calls one of the checks on them; anomalies is the list the check    *)
(* returned and op the check that was called.  The checks keep no state,   *)
(* so one call per input covers every call.                                *)

Init ==
    /\ \E input \in Inputs : shipments = input[1] /\ emails = input[2]
    /\ anomalies = <<>>
    /\ payload = DailyPayload(Date(2026, 2, 23), 0, <<>>, <<>>)
    /\ files = NoFiles /\ loaded = None
    /\ op = "init"
    /\ saved = NoSaved /\ tabs = EmptySpreadsheet
    /\ mail_text = <<>> /\ hints = None /\ response = None /\ run = NotRunning

CheckDoubleCounts ==
    /\ op = "init"
    /\ anomalies' = check_double_counts(shipments)
    /\ op' = "check_double_counts"
    /\ UNCHANGED <<shipments, emails, payload, files, loaded,
                   saved, tabs, mail_text, hints, response, run>>

CheckMissingPaperwork ==
    /\ op = "init"
    /\ anomalies' = check_missing_paperwork(emails, shipments)
    /\ op' = "check_missing_paperwork"
    /\ UNCHANGED <<shipments, emails, payload, files, loaded,
                   saved, tabs, mail_text, hints, response, run>>

CheckAwbConsistency ==
    /\ op = "init"
    /\ anomalies' = check_awb_consistency(shipments)
    /\ op' = "check_awb_consistency"
    /\ UNCHANGED <<shipments, emails, payload, files, loaded,
                   saved, tabs, mail_text, hints, response, run>>

CheckWeightOutliers ==
    /\ op = "init"
    /\ anomalies' = check_weight_outliers(shipments)
    /\ op' = "check_weight_outliers"
    /\ UNCHANGED <<shipments, emails, payload, files, loaded,
                   saved, tabs, mail_text, hints, response, run>>

RunAllChecks ==
    /\ op = "init"
    /\ anomalies' = run_all_checks(emails, shipments)
    /\ op' = "run_all_checks"
    /\ UNCHANGED <<shipments, emails, payload, files, loaded,
                   saved, tabs, mail_text, hints, response, run>>

Next ==
    \/ CheckDoubleCounts
    \/ CheckMissingPaperwork
    \/ CheckAwbConsistency
    \/ CheckWeightOutliers
    \/ RunAllChecks

Spec == Init /\ [][Next]_vars

----------------------------------------------------------------------------
(* Properties of check_double_counts.                                      *)

\* the positions of the shipments that carry AWB a
Carriers(a) == {i \in DOMAIN shipments : shipments[i].awb = a}

\* the AWBs other than the sentinel carried by more than one shipment
RepeatedAwbs ==
    {a \in {shipments[i].awb : i \in DOMAIN shipments} :
        a # MISSING /\ Cardinality(Carriers(a)) > 1}

\* the positions of the anomalies about AWB a
AnomaliesAbout(a) == {k \in DOMAIN anomalies : anomalies[k].related_awb = Some(a)}

\* the customer name and the species of a line, both lowercased
LowerPair(line) == <<Lower(line.customer_name), Lower(line.species)>>

\* the lines (shipment position, line position) of the carriers of a
LinesOf(a) == UNION {{<<i, j>> : j \in DOMAIN shipments[i].lines} : i \in Carriers(a)}

\* those whose lowercased pair is key
LinesWithKey(a, key) == {x \in LinesOf(a) : LowerPair(shipments[x[1]].lines[x[2]]) = key}

KeysOf(a) == {LowerPair(shipments[x[1]].lines[x[2]]) : x \in LinesOf(a)}

\* the (customer, species) pairs of a shipment as written, and lowercased
PairsOf(s) == {<<s.lines[j].customer_name, s.lines[j].species>> : j \in DOMAIN s.lines}
LowerPairsOf(s) == {LowerPair(s.lines[j]) : j \in DOMAIN s.lines}

TwoShipmentsSharingAwb ==
    /\ Len(shipments) = 2
    /\ shipments[1].awb = shipments[2].awb
    /\ shipments[1].awb # MISSING

NoKeyRepeatedIn(s) ==
    \A i, j \in DOMAIN s.lines : LowerPair(s.lines[i]) = LowerPair(s.lines[j]) => i = j

SourceIdsOf(a) == UNION {Range(shipments[i].source_email_ids) : i \in Carriers(a)}

\* C4: related_emails of a DOUBLE_COUNT anomaly is the union of the source
\* email ids of the carriers of its AWB: every such id, no other id, and
\* each id listed once.
C4_RelatedEmailsIsUnion ==
    op = "check_double_counts" =>
        \A a \in RepeatedAwbs : \A k \in AnomaliesAbout(a) :
            LET rel == anomalies[k].related_emails
            IN  /\ Range(rel) = SourceIdsOf(a)
                /\ \A x, y \in DOMAIN rel : rel[x] = rel[y] => x = y

\* the customers (lowercased) of the lines of a shipment
CustomersOf(s) == {Lower(s.lines[j].customer_name) : j \in DOMAIN s.lines}

\* the carriers of a are for different customers: no customer has lines in two of them
SplitByCustomer(a) ==
    \A i, j \in Carriers(a) :
        i # j => CustomersOf(shipments[i]) \cap CustomersOf(shipments[j]) = {}

\* C5: shipments sharing an AWB whose lines are for different customers
\* (a split shipment) produce no anomaly for that AWB.
C5_SplitShipmentNoAnomaly ==
    op = "check_double_counts" =>
        \A a \in RepeatedAwbs :
            (SplitByCustomer(a) /\ \A i \in Carriers(a) : shipments[i].lines # <<>>)
            => AnomaliesAbout(a) = {}

----------------------------------------------------------------------------
(* Properties of check_awb_consistency.                                    *)

\* exactly 11 characters, each a digit
ElevenDigits(a) == Len(a) = 11 /\ \A i \in DOMAIN a : IsDigit(a[i])

\* the shipments for which the claim expects an anomaly, in list order
ExpectedAwbFindings == SelectSeq(shipments, LAMBDA s : s.awb = MISSING \/ ~ElevenDigits(s.awb))

\* C6: check_awb_consistency classifies each shipment on its own: "MISSING"
\* gives one MISSING_AWB / ERROR with the shipment's source ids, an AWB that
\* is not exactly 11 digits one AWB_MISMATCH / WARNING, an AWB of exactly 11
\* digits nothing; the output is never longer than the shipment list.
C6_AwbClassification ==
    op = "check_awb_consistency" =>
        /\ Len(anomalies) = Len(ExpectedAwbFindings)
        /\ Len(anomalies) <= Len(shipments)
        /\ \A k \in DOMAIN anomalies : k \in DOMAIN ExpectedAwbFindings =>
              IF ExpectedAwbFindings[k].awb = MISSING
              THEN /\ anomalies[k].anomaly_type = "MISSING_AWB"
                   /\ anomalies[k].severity = "ERROR"
                   /\ anomalies[k].related_emails = ExpectedAwbFindings[k].source_email_ids
              ELSE /\ anomalies[k].anomaly_type = "AWB_MISMATCH"
                   /\ anomalies[k].severity = "WARNING"

\* shipment i is reported as non-standard
ReportedMismatch(i) ==
    \E k \in DOMAIN anomalies :
        /\ anomalies[k].anomaly_type = "AWB_MISMATCH"
        /\ anomalies[k].related_awb = Some(shipments[i].awb)

\* C7 as claimed: a shipment is reported AWB_MISMATCH exactly when its AWB is
\* not "MISSING" and is not 11 digits after stripping hyphens and whitespace.
C7_MismatchIffNotElevenStripped ==
    op = "check_awb_consistency" =>
        \A i \in DOMAIN shipments :
            ReportedMismatch(i)
               <=> (shipments[i].awb # MISSING /\ ~ElevenDigits(StripSeparators(shipments[i].awb)))

\* 11 digits as written, or 11 digits and one line feed that ends the string
ElevenDigitsAsWritten(a) ==
    \/ ElevenDigits(a)
    \/ Len(a) = 12 /\ ElevenDigits(SubSeq(a, 1, 11)) /\ a[12] = "\n"

\* C7 amended: nothing is stripped.  A shipment is reported AWB_MISMATCH
\* exactly when its AWB is not "MISSING" and is not, as written, 11 digits
\* (with at most one line feed after them); an AWB with hyphens or spaces
\* such as "123-4567-8901" is reported.
C7_MismatchIffNotElevenAsWritten ==
    op = "check_awb_consistency" =>
        /\ \A i \in DOMAIN shipments :
              ReportedMismatch(i)
                 <=> (shipments[i].awb # MISSING /\ ~ElevenDigitsAsWritten(shipments[i].awb))
        /\ Cardinality({k \in DOMAIN anomalies : anomalies[k].anomaly_type = "AWB_MISMATCH"})
              = Cardinality({i \in DOMAIN shipments :
                    shipments[i].awb # MISSING /\ ~ElevenDigitsAsWritten(shipments[i].awb)})
        /\ \A i \in DOMAIN shipments :
              (shipments[i].awb # MISSING /\ \E j \in DOMAIN shipments[i].awb :
                    shipments[i].awb[j] \in {"-", " "})
              => ReportedMismatch(i)

C7_Witness ==
    /\ op = "check_awb_consistency"
    /\ \E i \in DOMAIN shipments : shipments[i].awb = AWB_HYPHENS /\ ReportedMismatch(i)
    /\ \E i \in DOMAIN shipments : shipments[i].awb = AWB_A /\ ~ReportedMismatch(i)

----------------------------------------------------------------------------
(* Properties of check_weight_outliers.                                    *)

\* every line of every shipment, in iteration order, with its shipment
RECURSIVE LinesInOrder(_)
LinesInOrder(ss) ==
    IF ss = <<>> THEN <<>>
    ELSE [j \in 1..Len(Head(ss).lines) |-> [shipment |-> Head(ss), line |-> Head(ss).lines[j]]]
         \o LinesInOrder(Tail(ss))

\* the line has a known weight, its lowercased species has a range, and the
\* weight is strictly below the minimum or strictly above the maximum
OutOfRange(line) ==
    /\ Len(line.weight_lbs) = 1
    /\ \E sp \in DOMAIN SPECIES_WEIGHT_RANGES :
          /\ sp = Lower(line.species)
          /\ \/ line.weight_lbs[1] < SPECIES_WEIGHT_RANGES[sp][1]
             \/ line.weight_lbs[1] > SPECIES_WEIGHT_RANGES[sp][2]

ExpectedOutliers == SelectSeq(LinesInOrder(shipments), LAMBDA x : OutOfRange(x.line))

----------------------------------------------------------------------------
(* Properties of check_missing_paperwork.                                  *)

\* the AWBs of the shipments, the sentinel left out
KnownAwbs == {shipments[i].awb : i \in DOMAIN shipments} \ {MISSING}

\* the positions of the text of email e where the AWB pattern matches and the
\* match, its separators stripped, is not the AWB of a shipment
UnknownMentions(e) ==
    LET text == EmailText(e)
    IN  {p \in DOMAIN text :
            /\ AwbMatchEnd(text, p) # 0
            /\ StripSeparators(SubSeq(text, p, AwbMatchEnd(text, p) - 1)) \notin KnownAwbs}

RECURSIVE SumUnknownMentions(_)
SumUnknownMentions(I) ==
    IF I = {} THEN 0
    ELSE LET i == CHOOSE x \in I : TRUE
         IN  Cardinality(UnknownMentions(emails[i])) + SumUnknownMentions(I \ {i})

\* C9: check_missing_paperwork emits one MISSING_PAPERWORK / WARNING for every
\* match of the AWB pattern in an email's body text plus subject whose stripped
\* value is not the AWB of a non-"MISSING" shipment, related to exactly that
\* email; matches are not deduplicated, and a mention of an extracted AWB
\* yields nothing.
C9_OnePerUnknownMention ==
    op = "check_missing_paperwork" =>
        /\ Len(anomalies) = SumUnknownMentions(DOMAIN emails)
        /\ \A k \in DOMAIN anomalies :
              /\ anomalies[k].anomaly_type = "MISSING_PAPERWORK"
              /\ anomalies[k].severity = "WARNING"
              /\ Len(anomalies[k].related_awb) = 1
              /\ anomalies[k].related_awb[1] \notin KnownAwbs
              /\ ElevenDigits(anomalies[k].related_awb[1])
              /\ \E i \in DOMAIN emails : anomalies[k].related_emails = <<emails[i].message_id>>
        /\ \A i \in DOMAIN emails :
              Cardinality({k \in DOMAIN anomalies :
                              anomalies[k].related_emails = <<emails[i].message_id>>})
                 = SumUnknownMentions({j \in DOMAIN emails :
                                          emails[j].message_id = emails[i].message_id})

C9_Witness ==
    /\ op = "check_missing_paperwork"
    /\ \E i \in DOMAIN emails : Cardinality(UnknownMentions(emails[i])) = 2
    /\ \E i \in DOMAIN emails :
          \E p \in DOMAIN EmailText(emails[i]) :
              /\ AwbMatchEnd(EmailText(emails[i]), p) # 0
              /\ p \notin UnknownMentions(emails[i])
    /\ Len(anomalies) = 2

----------------------------------------------------------------------------
(* Properties of run_all_checks.                                           *)

\* C10: run_all_checks returns the concatenation of the lists of
\* check_double_counts, check_missing_paperwork, check_awb_consistency and
\* check_weight_outliers, in this order, nothing dropped, merged or reordered.
C10_Concatenation ==
    op = "run_all_checks" =>
        anomalies = check_double_counts(shipments)
                    \o check_missing_paperwork(emails, shipments)
                    \o check_awb_consistency(shipments)
                    \o check_weight_outliers(shipments)

C10_Witness ==
    /\ op = "run_all_checks"
    /\ check_double_counts(shipments) # <<>>
    /\ check_missing_paperwork(emails, shipments) # <<>>
    /\ check_awb_consistency(shipments) # <<>>
    /\ check_weight_outliers(shipments) # <<>>
    /\ \E j, k \in DOMAIN anomalies :
          /\ j < k
          /\ anomalies[j].anomaly_type # anomalies[k].anomaly_type
          /\ anomalies[j].related_awb # None
          /\ anomalies[j].related_awb = anomalies[k].related_awb

----------------------------------------------------------------------------
(* Properties of the checks taken together.                                *)

\* every AWB is 11 digits and no two shipments carry the same one, every
\* known weight is inside the range of its species, and every AWB an email
\* mentions is the AWB of a shipment
CleanInput ==
    /\ \A i \in DOMAIN shipments : ElevenDigits(shipments[i].awb)
    /\ \A i, j \in DOMAIN shipments : shipments[i].awb = shipments[j].awb => i = j
    /\ \A x \in Range(LinesInOrder(shipments)) : ~OutOfRange(x.line)
    /\ \A i \in DOMAIN emails : UnknownMentions(emails[i]) = {}

\* C11: when every shipment has a valid 11-digit AWB, the AWBs are pairwise
\* distinct, every known weight is inside its species range and no email
\* mentions an AWB that was not extracted, run_all_checks returns no anomaly
\* of severity ERROR.
C11_CleanInputNoError ==
    (op = "run_all_checks" /\ CleanInput)
    => \A k \in DOMAIN anomalies : anomalies[k].severity # "ERROR"

C11_Witness ==
    /\ op = "run_all_checks"
    /\ CleanInput
    /\ Len(shipments) = 2
    /\ \E x \in Range(LinesInOrder(shipments)) :
          x.line.weight_lbs # None /\ Lower(x.line.species) \in DOMAIN SPECIES_WEIGHT_RANGES
    /\ \E i \in DOMAIN emails :
          \E p \in DOMAIN EmailText(emails[i]) : AwbMatchEnd(EmailText(emails[i]), p) # 0
    /\ \A k \in DOMAIN anomalies : anomalies[k].severity # "ERROR"

\* C12 as claimed: each check returns an empty list when the shipment list it
\* is given is empty, and check_missing_paperwork also when the email list is
\* empty, even if the emails mention AWBs.
C12_EmptyInputEmptyOutput ==
    /\ (op \in {"check_double_counts", "check_awb_consistency", "check_weight_outliers"}
         /\ shipments = <<>>) => anomalies = <<>>
    /\ (op = "check_missing_paperwork" /\ (shipments = <<>> \/ emails = <<>>))
       => anomalies = <<>>

\* C12 amended: the three checks over shipments return an empty list for an
\* empty shipment list and check_missing_paperwork returns one for an empty
\* email list; with an empty shipment list check_missing_paperwork reports
\* every match of the AWB pattern in the emails, one MISSING_PAPERWORK
\* warning each.
C12_EmptyShipmentsReportEveryMention ==
    /\ (op \in {"check_double_counts", "check_awb_consistency", "check_weight_outliers"}
         /\ shipments = <<>>) => anomalies = <<>>
    /\ (op = "check_missing_paperwork" /\ emails = <<>>) => anomalies = <<>>
    /\ (op = "check_missing_paperwork" /\ shipments = <<>>)
       => /\ Len(anomalies) = SumUnknownMentions(DOMAIN emails)
          /\ \A i \in DOMAIN emails :
                \A p \in DOMAIN EmailText(emails[i]) :
                    AwbMatchEnd(EmailText(emails[i]), p) # 0
                    => \E k \in DOMAIN anomalies :
                          /\ anomalies[k].anomaly_type = "MISSING_PAPERWORK"
                          /\ anomalies[k].related_emails = <<emails[i].message_id>>

C12_Witness ==
    /\ op = "check_missing_paperwork"
    /\ shipments = <<>>
    /\ \E i \in DOMAIN emails :
          \E p \in DOMAIN EmailText(emails[i]) : AwbMatchEnd(EmailText(emails[i]), p) # 0
    /\ Len(anomalies) >= 2

----------------------------------------------------------------------------
(* Order of the anomalies within the output of a check.                    *)

\* pairs of positions in iteration order
Before(x, y) == x[1] < y[1] \/ (x[1] = y[1] /\ x[2] < y[2])

\* the k-th pair of S in iteration order
NthOf(S, k) == CHOOSE x \in S : Cardinality({y \in S : Before(y, x)}) = k - 1

\* the shipments check_awb_consistency reports
FlaggedShipments ==
    {<<i, 1>> : i \in {j \in DOMAIN shipments :
        shipments[j].awb = MISSING \/ ~ElevenDigitsAsWritten(shipments[j].awb)}}

\* the lines check_weight_outliers reports
OutlierLines ==
    {x \in UNION {{<<i, j>> : j \in DOMAIN shipments[i].lines} : i \in DOMAIN shipments} :
        OutOfRange(shipments[x[1]].lines[x[2]])}

\* the matches check_missing_paperwork reports: email position, text position
ReportedMentions == UNION {{<<i, p>> : p \in UnknownMentions(emails[i])} : i \in DOMAIN emails}

MentionAt(x) ==
    LET text == EmailText(emails[x[1]])
    IN  StripSeparators(SubSeq(text, x[2], AwbMatchEnd(text, x[2]) - 1))

\* the position of the first shipment that carries a
FirstCarrier(a) == CHOOSE i \in Carriers(a) : \A j \in Carriers(a) : i <= j

\* C13: within the output of a check the anomalies follow input iteration
\* order: check_awb_consistency by shipment position, check_weight_outliers
\* by (shipment, line) position, check_missing_paperwork by (email, match)
\* position, check_double_counts by the position of the first shipment that
\* carries each repeated AWB; severity plays no part in the order.
C13_InputOrder ==
    /\ op = "check_awb_consistency" =>
          /\ Len(anomalies) = Cardinality(FlaggedShipments)
          /\ \A k \in DOMAIN anomalies :
                LET s == shipments[NthOf(FlaggedShipments, k)[1]]
                IN  /\ anomalies[k].related_emails = s.source_email_ids
                    /\ anomalies[k].severity = IF s.awb = MISSING THEN "ERROR" ELSE "WARNING"
                    /\ anomalies[k].related_awb = IF s.awb = MISSING THEN None ELSE Some(s.awb)
    /\ op = "check_weight_outliers" =>
          /\ Len(anomalies) = Cardinality(OutlierLines)
          /\ \A k \in DOMAIN anomalies :
                LET x == NthOf(OutlierLines, k)
                    line == shipments[x[1]].lines[x[2]]
                IN  /\ anomalies[k].related_awb = Some(shipments[x[1]].awb)
                    /\ anomalies[k].description.strs[2] = line.species
                    /\ anomalies[k].description.strs[3] = line.customer_name
                    /\ anomalies[k].description.nums[1] = line.weight_lbs[1]
    /\ op = "check_missing_paperwork" =>
          /\ Len(anomalies) = Cardinality(ReportedMentions)
          /\ \A k \in DOMAIN anomalies :
                LET x == NthOf(ReportedMentions, k)
                IN  /\ anomalies[k].related_emails = <<emails[x[1]].message_id>>
                    /\ anomalies[k].related_awb = Some(MentionAt(x))
    /\ op = "check_double_counts" =>
          \A j, k \in DOMAIN anomalies :
              j < k => FirstCarrier(anomalies[j].related_awb[1])
                          < FirstCarrier(anomalies[k].related_awb[1])

\* a WARNING stays ahead of the ERROR found after it
C13_Witness ==
    /\ op = "check_awb_consistency"
    /\ Len(shipments) = 2
    /\ shipments[1].awb = AWB_HYPHENS /\ shipments[2].awb = MISSING
    /\ Len(anomalies) = 2
    /\ anomalies[1].severity = "WARNING" /\ anomalies[2].severity = "ERROR"

----------------------------------------------------------------------------
(* Payloads.  The lines are what ShipmentLine(kwargs) accepts among the    *)
(* keyword arguments below; the last ones lack the required species.       *)

MaxPayloadLines == 2
MaxPayloadShipments == 2
MaxStorageShipments == 2

Acme == <<"A","c","m","e">>
swordfish == <<"s","w","o","r","d","f","i","s","h">>
SwordfishPadded == <<"S","w","o","r","d","f","i","s","h"," ">>

LineKwargs(customer, company, sp, boxes, weight) ==
    [customer_name |-> customer, company |-> company, species |-> sp,
     boxes |-> boxes, weight_lbs |-> weight]

LineKwargsPool ==
    { LineKwargs(JStr(Mark), JStr(Acme), JStr(Swordfish), JInt(10), JFloat(450)),
      LineKwargs(JStr(Bob), JStr(Acme), JStr(swordfish), JInt(8), JFloat(360)),
      LineKwargs(JStr(Bob), JNull, JStr(Swordfish), JNull, JNull),
      LineKwargs(JStr(Mark), JStr(<<>>), JStr(SwordfishPadded), JInt(4), JNull),
      LineKwargs(JStr(Mark), JNull, JStr(Salmon), JInt(-2), JFloat(-5)),
      LineKwargs(JStr(Bob), JNull, JNull, JInt(1), JFloat(1)) }

PayloadLinePool == {ShipmentLineOf(k) : k \in {x \in LineKwargsPool : ShipmentLineAccepts(x)}}

\* the two shipments of MOCK_SHIPMENTS_JSON
AWB_C == <<"2","3","4","5","6","7","8","9","0","1","2">>

MockLine(customer, company, sp, boxes, weight) ==
    ShipmentLineOf(LineKwargs(JStr(customer), JStr(company), JStr(sp), JInt(boxes), JFloat(weight)))

MockShipments ==
    << Shipment(AWB_A,
           << MockLine(Mark, <<"M","a","r","k","'","s"," ","S","e","a","f","o","o","d">>, Swordfish, 10, 450),
              MockLine(<<"B","r","y","a","n">>, <<"G","o","s","m","a","n","'","s"," ","F","i","s","h"," ","M","a","r","k","e","t">>, Swordfish, 8, 360),
              MockLine(<<"C","h","a","d","e">>, <<"L","o","c","k","w","o","o","d","-","W","i","n","a","n","t">>, <<"Y","e","l","l","o","w","t","a","i","l">>, 5, 40) >>,
           <<"msg_001", "msg_002">>),
       Shipment(AWB_C,
           << MockLine(<<"R","o","b","b","y">>, <<"G","r","e","a","t"," ","E","a","s","t","e","r","n">>, <<"Y","e","l","l","o","w","f","i","n"," ","T","u","n","a">>, 6, 280),
              MockLine(<<"M","a","n","n","y">>, <<"S","t","a","v","i","s">>, <<"M","a","h","i"," ","M","a","h","i">>, 4, 90) >>,
           <<"msg_001", "msg_002">>) >>

\* one shipment with three lines for one company
ThreeLineShipment ==
    Shipment(AWB_A,
        << MockLine(Mark, Acme, Swordfish, 10, 450),
           MockLine(Bob, Acme, swordfish, 8, 360),
           MockLine(Mark, Acme, Swordfish, 10, 450) >>,
        <<"e1">>)

\* the fixtures, and at most two shipments with at most MaxPayloadLines lines in all
PayloadShipmentLists ==
    {<<>>, MockShipments, <<ThreeLineShipment>>}
    \cup {<<Shipment(AWB_A, ls, <<"e1">>)>> : ls \in SeqUpTo(PayloadLinePool, MaxPayloadLines)}
    \cup UNION {{<<Shipment(AWB_A, SubSeq(ls, 1, k), <<"e1">>),
                    Shipment(AWB_B, SubSeq(ls, k + 1, Len(ls)), <<"e2">>)>> : k \in 0..Len(ls)} :
                  ls \in SeqUpTo(PayloadLinePool, MaxPayloadLines)}

\* the keyword arguments of the line of a shipment a caller appends
AppendPool ==
    { LineKwargs(JStr(Mark), JStr(Acme), JStr(Swordfish), JInt(10), JFloat(450)),
      LineKwargs(JStr(Bob), JNull, JStr(Swordfish), JNull, JNull),
      LineKwargs(JStr(Mark), JNull, JStr(Salmon), JInt(-2), JFloat(-5)),
      LineKwargs(JStr(Bob), JNull, JNull, JInt(1), JFloat(1)) }

----------------------------------------------------------------------------
(* A payload under construction: the caller appends a shipment whose line  *)
(* it constructs, removes the last shipment, or calls compute_totals.      *)

InitTotals ==
    /\ \E ss \in PayloadShipmentLists :
          payload = DailyPayload(Date(2026, 2, 23), 0, ss, run_all_checks(<<>>, ss))
    /\ files = NoFiles /\ loaded = None
    /\ shipments = <<>> /\ emails = <<>> /\ anomalies = <<>>
    /\ op = "init"
    /\ saved = NoSaved /\ tabs = EmptySpreadsheet
    /\ mail_text = <<>> /\ hints = None /\ response = None /\ run = NotRunning

ComputeTotals ==
    /\ payload' = compute_totals(payload)
    /\ op' = "compute_totals"
    /\ UNCHANGED <<shipments, emails, anomalies, files, loaded,
                   saved, tabs, mail_text, hints, response, run>>

AppendShipment ==
    /\ Len(payload.shipments) < MaxPayloadShipments
    /\ \E kwargs \in AppendPool :
          /\ ShipmentLineAccepts(kwargs)
          /\ payload' = [payload EXCEPT !.shipments =
                            Append(@, Shipment(AWB_B, <<ShipmentLineOf(kwargs)>>, <<"e2">>))]
    /\ op' = "append"
    /\ UNCHANGED <<shipments, emails, anomalies, files, loaded,
                   saved, tabs, mail_text, hints, response, run>>

RemoveShipment ==
    /\ payload.shipments # <<>>
    /\ payload' = [payload EXCEPT !.shipments = SubSeq(@, 1, Len(@) - 1)]
    /\ op' = "remove"
    /\ UNCHANGED <<shipments, emails, anomalies, files, loaded,
                   saved, tabs, mail_text, hints, response, run>>

NextTotals ==
    \/ ComputeTotals
    \/ AppendShipment
    \/ RemoveShipment

SpecTotals == InitTotals /\ [][NextTotals]_vars

----------------------------------------------------------------------------
(* Storing payloads: the caller holds a payload with its totals computed,  *)
(* saves it, loads the payload of a date, or passes it through JSON.       *)
(* saved is a history variable: for each date, the payload of the latest   *)
(* save_daily_payload call for that date and whether that call replaced a  *)
(* file written by an earlier call.                                        *)

\* a shipment without AWB whose line is a weight outlier, the two shipments
\* of MOCK_SHIPMENTS_JSON, and further shipments
StorageShipments ==
    <<Shipment(MISSING, <<ShipmentLine(Bob, Swordfish, Some(5000))>>, <<"e2">>)>>
    \o MockShipments
    \o [i \in 1..MaxStorageShipments |->
           Shipment(AWB_B, <<ShipmentLine(Bob, Wahoo, Some(5000))>>, <<"e2">>)]

\* the payloads of a run: the anomalies are those of the shipments and the
\* totals are computed
StoragePayloads ==
    {LET ss == SubSeq(StorageShipments, 1, k)
     IN  compute_totals(DailyPayload(d, 0, ss, run_all_checks(<<>>, ss))) :
        d \in DatePool, k \in 0..MaxStorageShipments}

InitStorage ==
    /\ payload \in StoragePayloads
    /\ files = NoFiles /\ loaded = None
    /\ shipments = <<>> /\ emails = <<>> /\ anomalies = <<>>
    /\ op = "init"
    /\ saved = NoSaved /\ tabs = EmptySpreadsheet
    /\ mail_text = <<>> /\ hints = None /\ response = None /\ run = NotRunning

BuildPayload ==
    /\ \E p \in StoragePayloads : payload' = p
    /\ op' = "build"
    /\ UNCHANGED <<shipments, emails, anomalies, files, loaded,
                   saved, tabs, mail_text, hints, response, run>>

SaveDailyPayload ==
    /\ files' = save_daily_payload(files, payload)
    /\ saved' = [saved EXCEPT ![payload.date] =
                     Some([payload |-> payload,
                           overwrote |-> files[payload_path(payload.date)] # None])]
    /\ op' = "save_daily_payload"
    /\ UNCHANGED <<shipments, emails, anomalies, payload, loaded,
                   tabs, mail_text, hints, response, run>>

LoadDailyPayload ==
    /\ \E d \in DatePool : loaded' = Some([date |-> d, payload |-> load_daily_payload(files, d)])
    /\ op' = "load_daily_payload"
    /\ UNCHANGED <<shipments, emails, anomalies, payload, files,
                   saved, tabs, mail_text, hints, response, run>>

JsonRoundTrip ==
    /\ loaded' = Some([date |-> payload.date, payload |-> DailyPayloadOf(model_dump(payload))])
    /\ op' = "json_round_trip"
    /\ UNCHANGED <<shipments, emails, anomalies, payload, files,
                   saved, tabs, mail_text, hints, response, run>>

NextStorage ==
    \/ BuildPayload
    \/ SaveDailyPayload
    \/ LoadDailyPayload
    \/ JsonRoundTrip

SpecStorage == InitStorage /\ [][NextStorage]_vars

----------------------------------------------------------------------------
(* Properties of compute_totals.                                           *)

\* the lines of a shipment list: shipment position, line position
PositionsOf(ss) == UNION {{<<i, j>> : j \in DOMAIN ss[i].lines} : i \in DOMAIN ss}

LineAt(ss, x) == ss[x[1]].lines[x[2]]

\* the box count and the weight of a line, absent counting as zero
BoxesAt(ss, x) == IF Len(LineAt(ss, x).boxes) = 0 THEN 0 ELSE LineAt(ss, x).boxes[1]
WeightAt(ss, x) == IF Len(LineAt(ss, x).weight_lbs) = 0 THEN 0 ELSE LineAt(ss, x).weight_lbs[1]

RECURSIVE SumBoxes(_, _)
SumBoxes(ss, S) ==
    IF S = {} THEN 0
    ELSE LET x == CHOOSE y \in S : TRUE IN BoxesAt(ss, x) + SumBoxes(ss, S \ {x})

RECURSIVE SumWeights(_, _)
SumWeights(ss, S) ==
    IF S = {} THEN 0
    ELSE LET x == CHOOSE y \in S : TRUE IN WeightAt(ss, x) + SumWeights(ss, S \ {x})

KeysIn(dict) == {dict[i].key : i \in DOMAIN dict}

\* dict has one bucket per key of the lines of ss, each the sum of the lines
\* with its key
BucketsMatch(dict, ss, Key(_)) ==
    /\ KeysIn(dict) = {Key(LineAt(ss, x)) : x \in PositionsOf(ss)}
    /\ Len(dict) = Cardinality(KeysIn(dict))
    /\ \A i \in DOMAIN dict :
          LET S == {x \in PositionsOf(ss) : Key(LineAt(ss, x)) = dict[i].key}
          IN  dict[i].boxes = SumBoxes(ss, S) /\ dict[i].weight_lbs = SumWeights(ss, S)

\* each bucket counts the lines with its key
OrderCountsMatch(dict, ss, Key(_)) ==
    \A i \in DOMAIN dict :
        dict[i].order_count
           = Cardinality({x \in PositionsOf(ss) : Key(LineAt(ss, x)) = dict[i].key})

\* C14: after compute_totals, total_boxes is the sum of the box counts and
\* total_weight_lbs the sum of the weights over every line of every shipment,
\* an absent value counting as zero; the lines (10,450), (8,360), (5,40),
\* (6,280), (4,90) give 33 boxes and 1220 lbs.
C14_TotalsAreSums ==
    op = "compute_totals" =>
        /\ payload.totals.total_boxes
              = SumBoxes(payload.shipments, PositionsOf(payload.shipments))
        /\ payload.totals.total_weight_lbs
              = SumWeights(payload.shipments, PositionsOf(payload.shipments))
        /\ payload.shipments = MockShipments =>
              payload.totals.total_boxes = 33 /\ payload.totals.total_weight_lbs = 1220

C14_Witness ==
    /\ op = "compute_totals"
    /\ payload.shipments = MockShipments
    /\ payload.totals.total_boxes = 33
    /\ payload.totals.total_weight_lbs = 1220

\* the company when one is given, else the customer name
GivenCompany(line) == IF line.company = None THEN line.customer_name ELSE line.company[1]

\* C15 as claimed: every line is bucketed under its company whenever a
\* company is given and under its customer name only when the company is
\* absent, and order_count counts the lines of the bucket.
C15_CompanyWheneverGiven ==
    op = "compute_totals" =>
        /\ BucketsMatch(payload.totals.customer_breakdown, payload.shipments, GivenCompany)
        /\ OrderCountsMatch(payload.totals.customer_breakdown, payload.shipments, GivenCompany)

\* the company when one is given and is not the empty string, else the
\* customer name
NamedCompany(line) ==
    IF line.company \in {None, Some(<<>>)} THEN line.customer_name ELSE line.company[1]

\* C15 amended: every line is bucketed under its company when the company
\* is given and not empty, and under its customer name when the company is
\* absent or the empty string; order_count grows by one per line, so a
\* shipment with three lines for one company gives order_count 3.
C15_CompanyUnlessEmpty ==
    op = "compute_totals" =>
        /\ BucketsMatch(payload.totals.customer_breakdown, payload.shipments, NamedCompany)
        /\ OrderCountsMatch(payload.totals.customer_breakdown, payload.shipments, NamedCompany)
        /\ payload.shipments = <<ThreeLineShipment>> =>
              /\ Len(payload.totals.customer_breakdown) = 1
              /\ payload.totals.customer_breakdown[1].key = Acme
              /\ payload.totals.customer_breakdown[1].order_count = 3

C15_Witness ==
    /\ op = "compute_totals"
    /\ \E x \in PositionsOf(payload.shipments) :
          /\ LineAt(payload.shipments, x).company = Some(<<>>)
          /\ LineAt(payload.shipments, x).customer_name
                \in KeysIn(payload.totals.customer_breakdown)
    /\ Acme \in KeysIn(payload.totals.customer_breakdown)
    /\ \A i \in DOMAIN payload.totals.customer_breakdown :
          payload.totals.customer_breakdown[i].key # <<>>

VerbatimSpecies(line) == line.species

\* C16: species_breakdown is keyed by the species string as written: lines
\* whose species differ, be it only in letter case or in surrounding
\* whitespace, are in distinct buckets and lines with the identical string in
\* the same bucket.
C16_SpeciesVerbatim ==
    op = "compute_totals" =>
        /\ BucketsMatch(payload.totals.species_breakdown, payload.shipments, VerbatimSpecies)
        /\ \A x, y \in PositionsOf(payload.shipments) :
              LET sx == LineAt(payload.shipments, x).species
                  sy == LineAt(payload.shipments, y).species
              IN  (sx # sy) <=>
                     (\E i, j \in DOMAIN payload.totals.species_breakdown :
                         /\ i # j
                         /\ payload.totals.species_breakdown[i].key = sx
                         /\ payload.totals.species_breakdown[j].key = sy)

C16_Witness ==
    /\ op = "compute_totals"
    /\ payload.shipments = <<ThreeLineShipment>>
    /\ Len(payload.totals.species_breakdown) = 2
    /\ payload.totals.species_breakdown[1].key = Swordfish
    /\ payload.totals.species_breakdown[1].boxes = 20
    /\ payload.totals.species_breakdown[2].key = swordfish

\* t is what the lines of ss alone give
TotalsOfListAlone(t, ss) ==
    /\ t.total_boxes = SumBoxes(ss, PositionsOf(ss))
    /\ t.total_weight_lbs = SumWeights(ss, PositionsOf(ss))
    /\ BucketsMatch(t.species_breakdown, ss, VerbatimSpecies)
    /\ BucketsMatch(t.customer_breakdown, ss, NamedCompany)
    /\ OrderCountsMatch(t.customer_breakdown, ss, NamedCompany)

\* C17: compute_totals recomputes from scratch: whatever the payload holds,
\* totals of an earlier shipment list included, the totals after the call
\* are those of the current shipment list alone, and a second call changes
\* nothing.
C17_FullRecomputation ==
    LET after == compute_totals(payload)
    IN  /\ TotalsOfListAlone(after.totals, payload.shipments)
        /\ compute_totals(after) = after
        /\ op = "compute_totals" => payload.totals = after.totals

\* the payload holds the totals of an earlier list, and the call replaces them
C17_Witness ==
    /\ op \in {"append", "remove"}
    /\ payload.totals # NoTotals
    /\ ~TotalsOfListAlone(payload.totals, payload.shipments)
    /\ payload.shipments # <<>>
    /\ TotalsOfListAlone(compute_totals(payload).totals, payload.shipments)

\* C18: compute_totals changes the totals of the payload and nothing else:
\* the shipment list with every field of every line (an absent box count or
\* weight stays absent), the anomaly list, the date and emails_processed are
\* as before the call.
C18_OnlyTotalsChange ==
    [][op' = "compute_totals" =>
          /\ payload'.shipments = payload.shipments
          /\ payload'.anomalies = payload.anomalies
          /\ payload'.date = payload.date
          /\ payload'.emails_processed = payload.emails_processed
          /\ \A x \in PositionsOf(payload.shipments) :
                /\ LineAt(payload.shipments, x).boxes = None
                      => LineAt(payload'.shipments, x).boxes = None
                /\ LineAt(payload.shipments, x).weight_lbs = None
                      => LineAt(payload'.shipments, x).weight_lbs = None]_vars

C18_Witness ==
    /\ op = "compute_totals"
    /\ payload.anomalies # <<>>
    /\ \E x \in PositionsOf(payload.shipments) :
          /\ LineAt(payload.shipments, x).boxes = None
          /\ LineAt(payload.shipments, x).weight_lbs = None
    /\ \E x \in PositionsOf(payload.shipments) : LineAt(payload.shipments, x).boxes # None
    /\ payload.totals # NoTotals

----------------------------------------------------------------------------
(* Construction-time validation of ShipmentLine.                           *)

\* C20: no line of a payload has a negative box count or a negative weight,
\* a line with such a value being rejected when it is constructed, and no
\* total or bucket of compute_totals is negative.
C20_NeverNegative ==
    op = "compute_totals" =>
        /\ \A x \in PositionsOf(payload.shipments) :
              /\ LineAt(payload.shipments, x).boxes # None
                    => LineAt(payload.shipments, x).boxes[1] >= 0
              /\ LineAt(payload.shipments, x).weight_lbs # None
                    => LineAt(payload.shipments, x).weight_lbs[1] >= 0
        /\ payload.totals.total_boxes >= 0
        /\ payload.totals.total_weight_lbs >= 0
        /\ \A i \in DOMAIN payload.totals.species_breakdown :
              /\ payload.totals.species_breakdown[i].boxes >= 0
              /\ payload.totals.species_breakdown[i].weight_lbs >= 0
        /\ \A i \in DOMAIN payload.totals.customer_breakdown :
              /\ payload.totals.customer_breakdown[i].boxes >= 0
              /\ payload.totals.customer_breakdown[i].weight_lbs >= 0

----------------------------------------------------------------------------
(* Round trip through JSON and through LocalStorage.                       *)

\* r is a payload with the totals, the shipment count and the anomaly count of p
RoundTripKeeps(r, p) ==
    /\ r # None
    /\ r[1].totals = p.totals
    /\ Len(r[1].shipments) = Len(p.shipments)
    /\ Len(r[1].anomalies) = Len(p.anomalies)

----------------------------------------------------------------------------
(* Pushing payloads to the spreadsheet: the caller holds a payload with    *)
(* its totals computed and pushes it; a later run builds another payload.  *)

MaxPushes == 2

InitSheets ==
    /\ payload \in StoragePayloads
    /\ tabs = EmptySpreadsheet
    /\ files = NoFiles /\ loaded = None /\ saved = NoSaved
    /\ shipments = <<>> /\ emails = <<>> /\ anomalies = <<>>
    /\ mail_text = <<>> /\ hints = None /\ response = None /\ run = NotRunning
    /\ op = "init"

PushFullPayload ==
    /\ Len(tabs.DailySummary) < MaxPushes
    /\ tabs' = push_full_payload(tabs, payload, <<>>)
    /\ op' = "push_full_payload"
    /\ UNCHANGED <<shipments, emails, anomalies, payload, files, loaded,
                   saved, mail_text, hints, response, run>>

NextSheets ==
    \/ BuildPayload
    \/ PushFullPayload

SpecSheets == InitSheets /\ [][NextSheets]_vars

----------------------------------------------------------------------------
(* Parsing email text: a text is drawn and one of the extractors is called *)
(* on it.  The texts are concatenations of a few tokens, one family of     *)
(* tokens per extractor, and four longer texts.                            *)

MaxAwbTokens == 3
MaxCustomerTokens == 3
MaxWeightTokens == 3
MaxBoxTokens == 3

RECURSIVE Concat(_)
Concat(tokens) == IF tokens = <<>> THEN <<>> ELSE Head(tokens) \o Concat(Tail(tokens))

TextsOf(tokens, n) == {Concat(ts) : ts \in SeqUpTo(tokens, n)}

AwbTokens == {<<"1","2","3","4","5","6","7","8","9","0","1">>, <<"1","2","3","-","4","5","6","7">>, <<"8","9","0","1">>, <<"-">>, <<" ">>, <<"A">>}
CustomerTokens == {<<"M","a","r","k">>, <<"A","M","O","S">>, <<"r","i","c","h","i","e">>, <<"B","o","b">>, <<"m","i","k","e">>, <<"c","u","s","t","o","m","e","r">>}
WeightTokens == {<<"4">>, <<",">>, <<".","5">>, <<" ">>, <<"l","b","s">>, <<"k","g">>}
BoxTokens == {<<"1","2">>, <<"b","o","x","e","s">>, <<"b","o","x">>, <<":">>, <<" ">>, <<"r">>}

ParserFixtures ==
    {<<"A","W","B",":"," ","1","2","3","4","5","6","7","8","9","0","1">>,
     <<"A","W","B"," ","1","2","3","-","4","5","6","7","-","8","9","0","1">>,
     <<"1","2","3","4","5","6","7","8","9","0","1"," ","1","2","3","-","4","5","6","7"," ","8","9","0","1">>,
     <<"R","e","d"," ","S","n","a","p","p","e","r"," ","1",",","2","0","0",".","5"," ","P","o","u","n","d","s",","," ","3"," ","k","i","l","o","s",","," ","1","2"," ","b","x","s">>}

Texts ==
    TextsOf(AwbTokens, MaxAwbTokens) \cup TextsOf(CustomerTokens, MaxCustomerTokens)
    \cup TextsOf(WeightTokens, MaxWeightTokens) \cup TextsOf(BoxTokens, MaxBoxTokens)
    \cup ParserFixtures

InitParser ==
    /\ mail_text \in Texts
    /\ hints = None
    /\ shipments = <<>> /\ emails = <<>> /\ anomalies = <<>>
    /\ payload = DailyPayload(Date(2026, 2, 23), 0, <<>>, <<>>)
    /\ files = NoFiles /\ loaded = None /\ saved = NoSaved /\ tabs = EmptySpreadsheet
    /\ response = None /\ run = NotRunning
    /\ op = "init"

ExtractAwbs ==
    /\ op = "init"
    /\ hints' = Some(Returned(extract_awbs(mail_text)))
    /\ op' = "extract_awbs"
    /\ UNCHANGED <<shipments, emails, anomalies, payload, files, loaded,
                   saved, tabs, mail_text, response, run>>

ExtractCustomerMentions ==
    /\ op = "init"
    /\ hints' = Some(Returned(extract_customer_mentions(mail_text)))
    /\ op' = "extract_customer_mentions"
    /\ UNCHANGED <<shipments, emails, anomalies, payload, files, loaded,
                   saved, tabs, mail_text, response, run>>

ExtractSpeciesMentions ==
    /\ op = "init"
    /\ hints' = Some(Returned(extract_species_mentions(mail_text)))
    /\ op' = "extract_species_mentions"
    /\ UNCHANGED <<shipments, emails, anomalies, payload, files, loaded,
                   saved, tabs, mail_text, response, run>>

ExtractWeights ==
    /\ op = "init"
    /\ hints' = Some(extract_weights(mail_text))
    /\ op' = "extract_weights"
    /\ UNCHANGED <<shipments, emails, anomalies, payload, files, loaded,
                   saved, tabs, mail_text, response, run>>

ExtractBoxCounts ==
    /\ op = "init"
    /\ hints' = Some(Returned(extract_box_counts(mail_text)))
    /\ op' = "extract_box_counts"
    /\ UNCHANGED <<shipments, emails, anomalies, payload, files, loaded,
                   saved, tabs, mail_text, response, run>>

FirstPassExtract ==
    /\ op = "init"
    /\ hints' = Some(first_pass_extract(mail_text))
    /\ op' = "first_pass_extract"
    /\ UNCHANGED <<shipments, emails, anomalies, payload, files, loaded,
                   saved, tabs, mail_text, response, run>>

NextParser ==
    \/ ExtractAwbs
    \/ ExtractCustomerMentions
    \/ ExtractSpeciesMentions
    \/ ExtractWeights
    \/ ExtractBoxCounts
    \/ FirstPassExtract

SpecParser == InitParser /\ [][NextParser]_vars

----------------------------------------------------------------------------
(* GeminiExtractor._parse_response (extraction/gemini_extractor.py).  The  *)
(* response text is carried by what json.loads makes of it: a text that is *)
(* not JSON, or the value it denotes.  A JSON object is its key-value      *)
(* record, a JSON array the sequence of its items.  The values of the      *)
(* inputs are those whose validation is decided by their JSON type; the    *)
(* supplier, the freight forwarder and the date of a shipment are          *)
(* validated and not carried in the shipment record.                       *)

JObject(f) == [t |-> "object", f |-> f]
JList(items) == [t |-> "list", items |-> items]

IsObject(v) == v.t = "object"
IsList(v) == v.t = "list"

NotJson(chars) == [json |-> FALSE, chars |-> chars]
JsonText(v) == [json |-> TRUE, value |-> v]

\* sys.int_info.default_max_str_digits: the longest integer literal int()
\* converts
MaxStrDigits == 4300

\* the text starts with an integer literal of more than MaxStrDigits digits
StartsWithLongInteger(chars) ==
    /\ Len(chars) > MaxStrDigits
    /\ \A i \in 1..(MaxStrDigits + 1) : IsDigit(chars[i])

\* json.loads(response_text): the value, or the exception raised.  The
\* scanner converts a number as it reads it, before it looks at what
\* follows: int() raises ValueError, which is no JSONDecodeError, on a
\* literal of more than MaxStrDigits digits.
json_loads(response_text) ==
    IF response_text.json
    THEN [raised |-> FALSE, value |-> response_text.value, error |-> ""]
    ELSE IF StartsWithLongInteger(response_text.chars)
         THEN [raised |-> TRUE, value |-> <<>>, error |-> "ValueError"]
         ELSE [raised |-> TRUE, value |-> <<>>, error |-> "JSONDecodeError"]

\* a required keyword argument that was not passed
Missing == [t |-> "missing", n |-> 0, s |-> <<>>]

\* obj.get(key, default)
Get(obj, key, default) == IF key \in DOMAIN obj.f THEN obj.f[key] ELSE default

Unknown == <<"U","n","k","n","o","w","n">>

\* [e.message_id for e in emails]
MessageIds(es) == [i \in DOMAIN es |-> es[i].message_id]

\* the keyword arguments of ShipmentLine(**line)
KwargsOfLine(line) ==
    [customer_name |-> Get(line, "customer_name", Missing),
     company |-> Get(line, "company", JNull),
     species |-> Get(line, "species", Missing),
     boxes |-> Get(line, "boxes", JNull),
     weight_lbs |-> Get(line, "weight_lbs", JNull)]

\* ShipmentLine(**line) returns: line is a mapping and its fields validate
LineAccepts(line) == IsObject(line) /\ ShipmentLineAccepts(KwargsOfLine(line))

\* Shipment(awb=s.get("awb", "MISSING"), date=s.get("date", ""), ...) returns
ShipmentFieldsAccept(s) ==
    /\ IsObject(s)
    /\ IsStr(Get(s, "awb", JStr(MISSING)))
    /\ IsStr(Get(s, "date", JStr(<<>>)))
    /\ IsIsoDate(Get(s, "date", JStr(<<>>)).s)
    /\ IsStr(Get(s, "supplier", JStr(Unknown)))
    /\ IsOptStr(Get(s, "freight_forwarder", JNull))

\* mutant: a line that fails validation is skipped
EntryLinesSkippingInvalid(s) ==
    IF IsList(Get(s, "lines", JList(<<>>)))
    THEN Some(SelectSeq(Get(s, "lines", JList(<<>>)).items, LineAccepts))
    ELSE None

\* the loop over s.get("lines", []): the list of lines, or None when the
\* value cannot be iterated or a line raises
EntryLines(s) ==
    LET lines == Get(s, "lines", JList(<<>>))
    IN  IF IsList(lines) /\ \A j \in DOMAIN lines.items : LineAccepts(lines.items[j])
        THEN Some(lines.items)
        ELSE None

\* the body of the try block for one entry: the shipment, or None when an
\* exception was raised
ParseShipment(s, es) ==
    IF ShipmentFieldsAccept(s) /\ EntryLines(s) # None
    THEN Some(Shipment(Get(s, "awb", JStr(MISSING)).s,
                       [j \in DOMAIN EntryLines(s)[1] |->
                           ShipmentLineOf(KwargsOfLine(EntryLines(s)[1][j]))],
                       MessageIds(es)))
    ELSE None

FailedShipment ==
    Anomaly("MISSING_DATA", "WARNING",
            Description("Failed to parse shipment data", <<>>, <<>>), None, <<>>)

InvalidJson(es) ==
    Anomaly("MISSING_DATA", "ERROR",
            Description("AI extraction returned invalid JSON", <<>>, <<>>),
            None, MessageIds(es))

\* the loop over data.get("shipments", []) from entry i
RECURSIVE ParseShipments(_, _, _, _)
ParseShipments(entries, i, es, acc) ==
    IF i > Len(entries) THEN acc
    ELSE LET shipment == ParseShipment(entries[i], es)
         IN  ParseShipments(entries, i + 1, es,
                 IF shipment # None
                 THEN [acc EXCEPT !.shipments = Append(@, shipment[1])]
                 ELSE [acc EXCEPT !.anomalies = Append(@, FailedShipment)])

\* the keyword arguments of Anomaly(**a)
AnomalyKwargs(a) ==
    [anomaly_type |-> Get(a, "anomaly_type", Missing),
     severity |-> Get(a, "severity", Missing),
     description |-> Get(a, "description", Missing),
     related_awb |-> Get(a, "related_awb", JNull),
     related_emails |-> Get(a, "related_emails", <<>>)]

ResponseAnomalyAccepts(a) ==
    /\ IsObject(a)
    /\ AnomalyKwargs(a).description # Missing
    /\ AnomalyAccepts(AnomalyKwargs(a))

\* the loop over data.get("anomalies", []): an anomaly that fails validation
\* is logged and left out
ParseAnomalies(items) ==
    LET valid == SelectSeq(items, ResponseAnomalyAccepts)
    IN  [k \in DOMAIN valid |-> AnomalyOf(AnomalyKwargs(valid[k]))]

\* the pair (shipments, anomalies) returned, or the exception that escapes:
\* only JSONDecodeError is caught around json.loads, and data.get on a value
\* that is no object and the iteration of a value that is no list are
\* outside the try blocks
_parse_response(response_text, es) ==
    LET parsed == json_loads(response_text)
    IN  IF parsed.raised /\ parsed.error = "JSONDecodeError"
        THEN Returned([shipments |-> <<>>, anomalies |-> <<InvalidJson(es)>>])
        ELSE IF parsed.raised THEN Raised
        ELSE IF ~IsObject(parsed.value) THEN Raised
        ELSE LET entries == Get(parsed.value, "shipments", JList(<<>>))
                 found == Get(parsed.value, "anomalies", JList(<<>>))
             IN  IF ~IsList(entries) \/ ~IsList(found) THEN Raised
                 ELSE LET acc == ParseShipments(entries.items, 1, es,
                                     [shipments |-> <<>>, anomalies |-> <<>>])
                      IN  Returned([acc EXCEPT
                              !.anomalies = @ \o ParseAnomalies(found.items)])

----------------------------------------------------------------------------
(* Parsing an extraction response: a batch of emails and a response text   *)
(* are drawn and _parse_response is called on them; shipments and          *)
(* anomalies are the lists it returned.                                    *)

MaxEntries == 3

Victor == <<"V","i","c","t","o","r">>

RunDateText == isoformat(Date(2026, 2, 23))

GoodLine ==
    JObject([customer_name |-> JStr(Mark), species |-> JStr(Swordfish),
             boxes |-> JInt(10), weight_lbs |-> JFloat(450)])

\* company given, no box count
OtherGoodLine ==
    JObject([customer_name |-> JStr(Bob), company |-> JStr(Acme), species |-> JStr(Wahoo),
             weight_lbs |-> JInt(60)])

\* the required species is absent
BadLine == JObject([customer_name |-> JStr(Bob), boxes |-> JInt(1)])

\* two entries that validate, the second without the key awb, and entries
\* that do not: no date, a date that is none, a second line that fails, a
\* null AWB, null lines, and an entry that is no object
EntryPool ==
    { JObject([awb |-> JStr(AWB_A), date |-> JStr(RunDateText), supplier |-> JStr(Victor),
               freight_forwarder |-> JNull, lines |-> JList(<<GoodLine>>)]),
      JObject([date |-> JStr(RunDateText), lines |-> JList(<<GoodLine, OtherGoodLine>>)]),
      JObject([awb |-> JStr(AWB_B), supplier |-> JStr(Victor), lines |-> JList(<<GoodLine>>)]),
      JObject([awb |-> JStr(AWB_B), date |-> JStr(<<"2","3","/","0","2","/","2","0","2","6">>),
               lines |-> JList(<<>>)]),
      JObject([awb |-> JStr(AWB_B), date |-> JStr(RunDateText),
               lines |-> JList(<<GoodLine, BadLine>>)]),
      JObject([awb |-> JNull, date |-> JStr(RunDateText), lines |-> JList(<<GoodLine>>)]),
      JObject([awb |-> JStr(AWB_C), date |-> JStr(RunDateText), lines |-> JNull]),
      JStr(AWB_A) }

\* an anomaly the response reports, of the type and severity of a failed
\* entry, and one whose severity is none
ReportedAnomaly ==
    JObject([anomaly_type |-> JStr("MISSING_DATA"), severity |-> JStr("WARNING"),
             description |-> Description("weight not stated", <<>>, <<>>),
             related_awb |-> JStr(AWB_A)])

UnreadableAnomaly ==
    JObject([anomaly_type |-> JStr("MISSING_DATA"), severity |-> JStr("INFO"),
             description |-> Description("weight not stated", <<>>, <<>>)])

ReportedAnomalyLists == {<<>>, <<ReportedAnomaly>>, <<UnreadableAnomaly, ReportedAnomaly>>}

\* a run of digits one longer than int() converts, followed by a letter
LongIntegerText == [i \in 1..(MaxStrDigits + 2) |-> IF i <= MaxStrDigits + 1 THEN "1" ELSE "x"]

\* texts that are not JSON; documents with both keys, with one of them and
\* with neither; a document whose shipments are null and one that is an array
ResponsePool ==
    {NotJson(<<>>), NotJson(<<"{">>), NotJson(<<"S","o","r","r","y">>),
     NotJson(<<"1","2","x">>), NotJson(LongIntegerText)}
    \cup {JsonText(JObject([shipments |-> JList(entries), anomalies |-> JList(found)])) :
            entries \in SeqUpTo(EntryPool, MaxEntries), found \in ReportedAnomalyLists}
    \cup {JsonText(JObject([shipments |-> JList(entries)])) :
            entries \in SeqUpTo(EntryPool, 1)}
    \cup {JsonText(JObject([anomalies |-> JList(found)])) : found \in ReportedAnomalyLists}
    \cup {JsonText(JObject([model |-> JStr(<<"g">>)])),
          JsonText(JObject([shipments |-> JNull])),
          JsonText(JList(<<>>))}

BatchPool ==
    {<<>>,
     <<EmailDetail("m1", <<>>, <<>>)>>,
     <<EmailDetail("m1", <<>>, <<>>), EmailDetail("m2", <<>>, <<>>)>>}

InitExtract ==
    /\ emails \in BatchPool
    /\ response \in {Some(r) : r \in ResponsePool}
    /\ shipments = <<>> /\ anomalies = <<>>
    /\ op = "init"
    /\ payload = DailyPayload(Date(2026, 2, 23), 0, <<>>, <<>>)
    /\ files = NoFiles /\ loaded = None
    /\ saved = NoSaved /\ tabs = EmptySpreadsheet
    /\ mail_text = <<>> /\ hints = None /\ run = NotRunning

\* shipments, anomalies = self._parse_response(response.text, emails)
ParseResponse ==
    /\ op = "init"
    /\ LET result == _parse_response(response[1], emails)
       IN  IF result.raised
           THEN /\ op' = "_parse_response raised"
                /\ UNCHANGED <<shipments, anomalies>>
           ELSE /\ op' = "_parse_response"
                /\ shipments' = result.value.shipments
                /\ anomalies' = result.value.anomalies
    /\ UNCHANGED <<emails, payload, files, loaded,
                   saved, tabs, mail_text, hints, response, run>>

NextExtract == ParseResponse

SpecExtract == InitExtract /\ [][NextExtract]_vars

----------------------------------------------------------------------------
(* The run command (cli.py): one run of the pipeline, step by step.  run   *)
(* holds the position of the run, its date and flags, and what became of   *)
(* the Drive upload and of the Sheets push.  The search result, the        *)
(* response of the extraction service and the outcome of each call to      *)
(* Drive and Sheets are inputs.  Attachments, their Drive links and the    *)
(* raw email files are not modelled.                                       *)

Running(d, skip_drive, skip_sheets) ==
    [pc |-> "search", date |-> d, skip_drive |-> skip_drive, skip_sheets |-> skip_sheets,
     drive |-> "not attempted", sheets |-> "not attempted"]

\* the responses of the extraction service in a run
RunResponsePool ==
    {NotJson(<<"{">>),
     JsonText(JObject([shipments |-> JNull]))}
    \cup {JsonText(JObject([shipments |-> JList(entries),
                            anomalies |-> JList(<<ReportedAnomaly>>)])) :
            entries \in SeqUpTo({e \in EntryPool : IsObject(e) /\ "date" \in DOMAIN e.f}, 1)}

InitRun ==
    /\ \E d \in DatePool, skip_drive, skip_sheets \in BOOLEAN :
          run = Running(d, skip_drive, skip_sheets)
    /\ emails \in BatchPool
    /\ response \in {Some(r) : r \in RunResponsePool}
    /\ shipments = <<>> /\ anomalies = <<>>
    /\ payload = DailyPayload(Date(2026, 2, 23), 0, <<>>, <<>>)
    /\ files = NoFiles /\ loaded = None /\ saved = NoSaved /\ tabs = EmptySpreadsheet
    /\ mail_text = <<>> /\ hints = None
    /\ op = "init"

\* messages = trawler.search_shipment_emails(...); if not messages: return
SearchShipmentEmails ==
    /\ run.pc = "search"
    /\ run' = [run EXCEPT !.pc = IF emails = <<>> THEN "returned" ELSE "extract"]
    /\ op' = "search_shipment_emails"
    /\ UNCHANGED <<shipments, emails, anomalies, payload, files, loaded,
                   saved, tabs, mail_text, hints, response>>

\* extractor.extract_shipments(...), detector.run_all_checks(...) and
\* all_anomalies = ai_anomalies + detected_anomalies; an exception of the
\* extraction ends the run
ExtractAndCheck ==
    /\ run.pc = "extract"
    /\ LET result == _parse_response(response[1], emails)
       IN  IF result.raised
           THEN /\ run' = [run EXCEPT !.pc = "raised"]
                /\ UNCHANGED <<shipments, anomalies>>
           ELSE /\ run' = [run EXCEPT !.pc = "store"]
                /\ shipments' = result.value.shipments
                /\ anomalies' = result.value.anomalies
                                    \o run_all_checks(emails, result.value.shipments)
    /\ op' = "extract_shipments"
    /\ UNCHANGED <<emails, payload, files, loaded,
                   saved, tabs, mail_text, hints, response>>

\* payload = DailyPayload(...); payload.compute_totals();
\* local.save_daily_payload(payload)
StoreLocal ==
    /\ run.pc = "store"
    /\ payload' = compute_totals(DailyPayload(run.date, Len(emails), shipments, anomalies))
    /\ files' = save_daily_payload(files, payload')
    /\ saved' = [saved EXCEPT ![run.date] =
                     Some([payload |-> payload',
                           overwrote |-> files[payload_path(run.date)] # None])]
    /\ run' = [run EXCEPT !.pc = "drive"]
    /\ op' = "save_daily_payload"
    /\ UNCHANGED <<shipments, emails, anomalies, loaded,
                   tabs, mail_text, hints, response>>

\* mutant: the exception of the Drive upload ends the run
AfterDriveFailureRaising(r) == [r EXCEPT !.drive = "failed", !.pc = "raised"]

\* except Exception: "Drive upload failed" is echoed and the run goes on
AfterDriveFailure(r) == [r EXCEPT !.drive = "failed", !.pc = "sheets"]

\* if not skip_drive: try: ... upload_attachment ... except Exception
DriveUpload ==
    /\ run.pc = "drive"
    /\ \/ run.skip_drive /\ run' = [run EXCEPT !.pc = "sheets"]
       \/ ~run.skip_drive /\ run' = [run EXCEPT !.drive = "done", !.pc = "sheets"]
       \/ ~run.skip_drive /\ run' = AfterDriveFailure(run)
    /\ op' = "upload_attachment"
    /\ UNCHANGED <<shipments, emails, anomalies, payload, files, loaded,
                   saved, tabs, mail_text, hints, response>>

\* the spreadsheets a push can leave behind when one of its calls raises:
\* before the first append, or after one, two or three of the four tabs
FailedPushes(sheet, p, drive_links) ==
    {sheet,
     append_shipment_rows(sheet, p),
     update_daily_summary(append_shipment_rows(sheet, p), p),
     update_awb_log(update_daily_summary(append_shipment_rows(sheet, p), p), p, drive_links)}

\* if not skip_sheets: try: sheets.push_full_payload(payload, drive_links)
\* except Exception
SheetsPush ==
    /\ run.pc = "sheets"
    /\ \/ run.skip_sheets /\ run' = [run EXCEPT !.pc = "summary"] /\ UNCHANGED tabs
       \/ /\ ~run.skip_sheets
          /\ tabs' = push_full_payload(tabs, payload, <<>>)
          /\ run' = [run EXCEPT !.sheets = "done", !.pc = "summary"]
       \/ /\ ~run.skip_sheets
          /\ tabs' \in FailedPushes(tabs, payload, <<>>)
          /\ run' = [run EXCEPT !.sheets = "failed", !.pc = "summary"]
    /\ op' = "push_full_payload"
    /\ UNCHANGED <<shipments, emails, anomalies, payload, files, loaded,
                   saved, mail_text, hints, response>>

\* "DAILY TRAWL COMPLETE" and the figures of the payload are echoed
Summary ==
    /\ run.pc = "summary"
    /\ run' = [run EXCEPT !.pc = "complete"]
    /\ op' = "summary"
    /\ UNCHANGED <<shipments, emails, anomalies, payload, files, loaded,
                   saved, tabs, mail_text, hints, response>>

NextRun ==
    \/ SearchShipmentEmails
    \/ ExtractAndCheck
    \/ StoreLocal
    \/ DriveUpload
    \/ SheetsPush
    \/ Summary

\* the statements that follow the local save are executed one after the
\* other, and every call to Drive or Sheets returns or raises
SpecRun ==
    InitRun /\ [][NextRun]_vars
    /\ WF_vars(DriveUpload) /\ WF_vars(SheetsPush) /\ WF_vars(Summary)

----------------------------------------------------------------------------
(* Weights with fractions.  weight_lbs is a Python float, an IEEE 754      *)
(* binary64 number.  A number that is not zero is its significand m, a     *)
(* sequence of bits from the most significant one, which is 1, and the     *)
(* exponent e of its last bit: the number is m * 2^e.  A float has         *)
(* Precision bits; an exact sum of floats may have more.  Zero has the     *)
(* empty significand.  Only non-negative numbers far from overflow and     *)
(* underflow are modelled.                                                 *)

\* the bits of a binary64 significand
Precision == 53

Zero64 == [m |-> <<>>, e |-> 0]

ZeroBits(n) == [i \in 1..n |-> 0]

PadLeft(bits, n) == ZeroBits(n - Len(bits)) \o bits

\* the bits from the first 1 on
StripLeadingZeros(bits) ==
    IF \A i \in DOMAIN bits : bits[i] = 0 THEN <<>>
    ELSE SubSeq(bits, CHOOSE k \in DOMAIN bits :
                          bits[k] = 1 /\ \A i \in 1..(k - 1) : bits[i] = 0,
                Len(bits))

\* the bits up to the last 1
StripTrailingZeros(bits) ==
    IF \A i \in DOMAIN bits : bits[i] = 0 THEN <<>>
    ELSE SubSeq(bits, 1, CHOOSE k \in DOMAIN bits :
                             bits[k] = 1 /\ \A i \in (k + 1)..Len(bits) : bits[i] = 0)

\* the carry into position i of the sum of two bit sequences of one length
\* (position 0 is the carry out): some lower position generates a carry and
\* every position between passes it on
CarryInto(a, b, i) ==
    IF \E j \in (i + 1)..Len(a) :
           /\ a[j] + b[j] = 2
           /\ \A k \in (i + 1)..(j - 1) : a[k] + b[k] = 1
    THEN 1 ELSE 0

SumOfPadded(a, b) ==
    (IF CarryInto(a, b, 0) = 1 THEN <<1>> ELSE <<>>)
    \o [i \in 1..Len(a) |-> (a[i] + b[i] + CarryInto(a, b, i)) % 2]

AddBits(a, b) ==
    LET n == IF Len(a) > Len(b) THEN Len(a) ELSE Len(b)
    IN  SumOfPadded(PadLeft(a, n), PadLeft(b, n))

\* the exact sum of two numbers, its significand as long as it needs to be
ExactAdd(x, y) ==
    IF x.m = <<>> THEN y
    ELSE IF y.m = <<>> THEN x
    ELSE LET e == IF x.e < y.e THEN x.e ELSE y.e
         IN  [m |-> AddBits(x.m \o ZeroBits(x.e - e), y.m \o ZeroBits(y.e - e)), e |-> e]

\* the float nearest to a number, ties to the even significand
RoundTo64(x) ==
    IF x.m = <<>> THEN Zero64
    ELSE IF Len(x.m) <= Precision
    THEN [m |-> x.m \o ZeroBits(Precision - Len(x.m)), e |-> x.e - (Precision - Len(x.m))]
    ELSE LET kept == SubSeq(x.m, 1, Precision)
             half == x.m[Precision + 1] = 1
             more == \E i \in (Precision + 2)..Len(x.m) : x.m[i] = 1
             up == half /\ (more \/ kept[Precision] = 1)
             rounded == IF up THEN AddBits(kept, <<1>>) ELSE kept
         IN  [m |-> SubSeq(rounded, 1, Precision),
              e |-> x.e + (Len(x.m) - Precision) + (Len(rounded) - Precision)]

\* a + b on floats
Add64(x, y) == RoundTo64(ExactAdd(x, y))

\* one form for each number: no zero bit at either end of the significand
Canonical(x) ==
    LET bits == StripTrailingZeros(StripLeadingZeros(x.m))
    IN  IF bits = <<>> THEN Zero64
        ELSE [m |-> bits, e |-> x.e + (Len(StripLeadingZeros(x.m)) - Len(bits))]

\* the bits of a natural number
RECURSIVE NatBits(_)
NatBits(n) == IF n = 0 THEN <<>> ELSE NatBits(n \div 2) \o <<n % 2>>

\* the bits of the expansion that are computed after the binary point: the
\* numbers converted are zero or above 2^-10
FractionBits == Precision + 11

\* 2^i modulo d
RECURSIVE PowerOfTwoMod(_, _)
PowerOfTwoMod(i, d) == IF i = 0 THEN 1 % d ELSE (2 * PowerOfTwoMod(i - 1, d)) % d

\* bit i after the binary point of r / d < 1, and what is left after it
RemainderAfter(r, d, i) == (r * PowerOfTwoMod(i, d)) % d
FractionBit(r, d, i) == (2 * RemainderAfter(r, d, i - 1)) \div d

\* float("n/d written as a decimal"): the float nearest to n / d; a last 1
\* stands for what the expansion leaves out
FloatOfRatio(n, d) ==
    LET bits == NatBits(n \div d)
                \o [i \in 1..FractionBits |-> FractionBit(n % d, d, i)]
                \o <<IF RemainderAfter(n % d, d, FractionBits) # 0 THEN 1 ELSE 0>>
    IN  RoundTo64([m |-> StripLeadingZeros(bits), e |-> 0 - (FractionBits + 1)])

----------------------------------------------------------------------------
(* compute_totals on weights with fractions: the loop of compute_totals    *)
(* with the weights added as floats.  The caller holds a payload whose     *)
(* lines weigh tenths of a pound and calls compute_totals.                 *)

SpeciesTotal64(k) == [key |-> k, boxes |-> 0, weight_lbs |-> Zero64]

CustomerTotal64(k) == [key |-> k, boxes |-> 0, weight_lbs |-> Zero64, order_count |-> 0]

NoTotals64 == ShipmentTotals(0, Zero64, <<>>, <<>>)

\* mutant: a line without box count adds no weight
LineWeight64IfBoxed(line) ==
    IF line.weight_lbs = None \/ line.boxes = None THEN Zero64 ELSE line.weight_lbs[1]

\* line.weight_lbs or 0.0
LineWeight64(line) == IF line.weight_lbs = None THEN Zero64 ELSE line.weight_lbs[1]

\* the body of the loop over the lines
AddLine64(acc, line) ==
    LET boxes == LineBoxes(line)
        weight == LineWeight64(line)
        species == SetDefault(acc.species_breakdown, SpeciesKey(line),
                              SpeciesTotal64(SpeciesKey(line)))
        sp == IndexOf(species, SpeciesKey(line))
        customers == SetDefault(acc.customer_breakdown, CustomerKey(line),
                                CustomerTotal64(CustomerKey(line)))
        ct == IndexOf(customers, CustomerKey(line))
    IN  ShipmentTotals(
            acc.total_boxes + boxes,
            Add64(acc.total_weight_lbs, weight),
            [species EXCEPT ![sp].boxes = @ + boxes,
                            ![sp].weight_lbs = Add64(@, weight)],
            [customers EXCEPT ![ct].boxes = @ + boxes,
                              ![ct].weight_lbs = Add64(@, weight),
                              ![ct].order_count = @ + 1])

RECURSIVE AddLines64(_, _)
AddLines64(acc, lines) ==
    IF lines = <<>> THEN acc ELSE AddLines64(AddLine64(acc, Head(lines)), Tail(lines))

RECURSIVE AddShipments64(_, _)
AddShipments64(acc, ss) ==
    IF ss = <<>> THEN acc ELSE AddShipments64(AddLines64(acc, Head(ss).lines), Tail(ss))

compute_totals64(self) == [self EXCEPT !.totals = AddShipments64(NoTotals64, self.shipments)]

MaxFractionLines == 3

\* a line weighing tenths / 10 pounds
FractionLine(customer, company, sp, boxes, tenths) ==
    [customer_name |-> customer, company |-> company, species |-> sp, boxes |-> boxes,
     weight_lbs |-> IF tenths = None THEN None ELSE Some(FloatOfRatio(tenths[1], 10))]

FractionLinePool ==
    { FractionLine(Mark, None, Swordfish, Some(1), Some(1)),
      FractionLine(Bob, None, Wahoo, Some(2), Some(2)),
      FractionLine(Bob, None, Wahoo, None, Some(3)),
      FractionLine(Mark, Some(Acme), Wahoo, Some(3), Some(4500)),
      FractionLine(Bob, Some(Acme), Swordfish, Some(4), Some(605)),
      FractionLine(Bob, None, Swordfish, Some(5), None) }

\* at most MaxFractionLines lines, in one shipment or the first line in a
\* shipment of its own
FractionPayloads ==
    UNION {{[date |-> Date(2026, 2, 23), emails_processed |-> 1,
             shipments |-> IF k = Len(ls)
                           THEN <<Shipment(AWB_A, ls, <<"e1">>)>>
                           ELSE <<Shipment(AWB_A, SubSeq(ls, 1, k), <<"e1">>),
                                  Shipment(AWB_B, SubSeq(ls, k + 1, Len(ls)), <<"e1">>)>>,
             anomalies |-> <<>>, totals |-> NoTotals64] :
               k \in {Len(ls)} \cup (IF Len(ls) > 1 THEN {1} ELSE {})} :
           ls \in SeqUpTo(FractionLinePool, MaxFractionLines)}

InitPartition ==
    /\ payload \in FractionPayloads
    /\ op = "init"
    /\ shipments = <<>> /\ emails = <<>> /\ anomalies = <<>>
    /\ files = NoFiles /\ loaded = None /\ saved = NoSaved /\ tabs = EmptySpreadsheet
    /\ mail_text = <<>> /\ hints = None /\ response = None /\ run = NotRunning

\* payload.compute_totals()
ComputeTotals64 ==
    /\ op = "init"
    /\ payload' = compute_totals64(payload)
    /\ op' = "compute_totals"
    /\ UNCHANGED <<shipments, emails, anomalies, files, loaded,
                   saved, tabs, mail_text, hints, response, run>>

NextPartition == ComputeTotals64

SpecPartition == InitPartition /\ [][NextPartition]_vars

----------------------------------------------------------------------------
(* Properties of LocalStorage.                                             *)

\* C21: after any sequence of save_daily_payload calls, load_daily_payload(d)
\* returns the payload of the latest save for d, whole (date, shipments,
\* anomalies and totals of that one save), whatever was saved for other
\* dates, and None when nothing was saved for d.
C21_LoadLatestSave ==
    /\ \A d \in DatePool :
          load_daily_payload(files, d) =
              IF saved[d] = None THEN None ELSE Some(saved[d][1].payload)
    /\ op = "load_daily_payload" =>
          loaded[1].payload =
              IF saved[loaded[1].date] = None THEN None
              ELSE Some(saved[loaded[1].date][1].payload)

\* a date saved twice is loaded after a save for the other date, while the
\* caller holds yet another payload
C21_Witness ==
    /\ op = "load_daily_payload"
    /\ \A d \in DatePool : saved[d] # None
    /\ saved[loaded[1].date][1].overwrote
    /\ loaded[1].payload = Some(saved[loaded[1].date][1].payload)
    /\ loaded[1].payload[1].shipments # <<>>
    /\ loaded[1].payload[1].anomalies # <<>>
    /\ \E d \in DatePool :
          Len(saved[d][1].payload.shipments) # Len(loaded[1].payload[1].shipments)
    /\ payload # loaded[1].payload[1]

----------------------------------------------------------------------------
(* Properties of SheetsStorage.                                            *)

\* the rows of a tab that carry the date d
RowsOfDate(rows, d) == SelectSeq(rows, LAMBDA row : row.Date = JStr(isoformat(d)))

\* C22: after push_full_payload the Shipments, Daily Summary, AWB Log and
\* Anomalies tabs hold, for the date of the pushed payload, the rows of that
\* payload and no row of an earlier push for the same date.
C22_LaterPushOverwrites ==
    [][op' = "push_full_payload" =>
          LET alone == push_full_payload(EmptySpreadsheet, payload, <<>>)
          IN  \A tab \in DOMAIN tabs' :
                 RowsOfDate(tabs'[tab], payload.date) = alone[tab]]_vars

----------------------------------------------------------------------------
(* Properties of the regex first-pass parser.                              *)

\* sub is three, four and four digits, with at most one hyphen or
\* whitespace character between two groups
AwbShape(sub) ==
    \E a, b \in {0, 1} :
       /\ Len(sub) = 11 + a + b
       /\ \A k \in (1..3) \cup ((4 + a)..(7 + a)) \cup ((8 + a + b)..(11 + a + b)) :
             sub[k] \in Digits
       /\ a = 1 => sub[4] \in {"-", " ", "\t", "\n", "\r"}
       /\ b = 1 => sub[8 + a] \in {"-", " ", "\t", "\n", "\r"}

\* the places <<first, last>> of s that hold an AWB: the shape above, with
\* no letter, digit or underscore right before or right after it
AwbPlaces(s) ==
    {<<i, j>> \in (DOMAIN s) \X (DOMAIN s) :
        /\ i <= j /\ AwbShape(SubSeq(s, i, j))
        /\ i > 1 => s[i - 1] \notin WordChars
        /\ j < Len(s) => s[j + 1] \notin WordChars}

\* the k-th place in document order
PlaceNumber(places, k) ==
    CHOOSE x \in places : Cardinality({y \in places : y[1] < x[1]}) = k - 1

\* C23: extract_awbs returns one entry per place of the text that matches
\* the 3-4-4 grouped 11-digit pattern, in document order and keeping
\* duplicates, each entry being the digits of its place (hyphens and
\* whitespace removed), so exactly 11 digits; "AWB: 12345678901" and
\* "AWB 123-4567-8901" both give ["12345678901"].
C23_ExtractAwbs ==
    op = "extract_awbs" =>
        LET awbs == hints[1].value
            places == AwbPlaces(mail_text)
        IN  /\ ~hints[1].raised
            /\ Len(awbs) = Cardinality(places)
            /\ \A k \in DOMAIN awbs :
                  /\ Len(awbs[k]) = 11
                  /\ \A c \in Range(awbs[k]) : c \in Digits
                  /\ awbs[k] = SelectSeq(SubSeq(mail_text, PlaceNumber(places, k)[1],
                                                PlaceNumber(places, k)[2]),
                                         LAMBDA c : c \in Digits)
            /\ mail_text \in {<<"A","W","B",":"," ","1","2","3","4","5","6","7","8","9","0","1">>, <<"A","W","B"," ","1","2","3","-","4","5","6","7","-","8","9","0","1">>}
                  => awbs = <<<<"1","2","3","4","5","6","7","8","9","0","1">>>>

\* the same AWB twice, once plain and once with a hyphen and a space
C23_Witness ==
    /\ op = "extract_awbs"
    /\ mail_text = <<"1","2","3","4","5","6","7","8","9","0","1"," ","1","2","3","-","4","5","6","7"," ","8","9","0","1">>
    /\ hints[1].value = <<<<"1","2","3","4","5","6","7","8","9","0","1">>, <<"1","2","3","4","5","6","7","8","9","0","1">>>>

\* C24: the extractors have no error conditions: every call returns
\* normally, whatever the text.
C24_NoErrorConditions ==
    op \in {"extract_awbs", "extract_customer_mentions", "extract_species_mentions",
            "extract_weights", "extract_box_counts", "first_pass_extract"}
        => ~hints[1].raised

(* The entries of the vocabulary whose contact occurs in the text. *)
MatchingEntries(s) ==
    {i \in DOMAIN KNOWN_CUSTOMERS : Contains(Lower(s), KNOWN_CUSTOMERS[i].contact)}

(* The first matching entry of each company that has one. *)
FirstOfCompany(s) ==
    {i \in MatchingEntries(s) :
        \A j \in MatchingEntries(s) :
            KNOWN_CUSTOMERS[j].company = KNOWN_CUSTOMERS[i].company => i <= j}

\* C25: extract_customer_mentions holds exactly one pair for every company
\* that has a contact occurring in the text, case-insensitively and as a
\* substring; the pair names the first such contact of the vocabulary, and
\* the pairs are in vocabulary order; no other pair is reported.
C25_FirstContactOfEachCompany ==
    op = "extract_customer_mentions" =>
        LET mentions == hints[1].value
            first == FirstOfCompany(mail_text)
        IN  /\ ~hints[1].raised
            /\ Len(mentions) = Cardinality(first)
            /\ \A i \in first :
                  \E k \in DOMAIN mentions :
                      mentions[k] = <<KNOWN_CUSTOMERS[i].contact, KNOWN_CUSTOMERS[i].company>>
            /\ \A k, l \in DOMAIN mentions :
                  k # l => mentions[k][2] # mentions[l][2]
            /\ \A k, l \in DOMAIN mentions :
                  k < l =>
                      \E i, j \in first :
                          /\ i < j
                          /\ mentions[k][1] = KNOWN_CUSTOMERS[i].contact
                          /\ mentions[l][1] = KNOWN_CUSTOMERS[j].contact

C25_Witness ==
    /\ op = "extract_customer_mentions"
    /\ Cardinality(MatchingEntries(mail_text)) = 3
    /\ hints[1].value =
          <<<<<<"r","i","c","h","i","e">>, <<"C","o","n","g","r","e","s","s","i","o","n","a","l">>>>,
            <<<<"b","o","b">>, <<"B","S","T"," ","S","e","a","f","o","o","d">>>>>>

----------------------------------------------------------------------------
(* Properties of _parse_response.                                          *)

\* C26: when the response text is not valid JSON, _parse_response returns,
\* with no shipments and exactly one anomaly, of type MISSING_DATA and
\* severity ERROR, whose related_emails are the message ids of all emails of
\* the batch, in batch order.
C26_InvalidJson ==
    op # "init" /\ response # None /\ ~response[1].json =>
        /\ op = "_parse_response"
        /\ shipments = <<>>
        /\ Len(anomalies) = 1
        /\ anomalies[1].anomaly_type = "MISSING_DATA"
        /\ anomalies[1].severity = "ERROR"
        /\ Len(anomalies[1].related_emails) = Len(emails)
        /\ \A i \in DOMAIN emails : anomalies[1].related_emails[i] = emails[i].message_id

\* the entries of the response document
EntriesOf(text) ==
    IF "shipments" \in DOMAIN text.value.f THEN text.value.f.shipments.items ELSE <<>>

\* the entry fails validation, at the shipment or at one of its lines
EntryFails(s) ==
    \/ ~ShipmentFieldsAccept(s)
    \/ "lines" \in DOMAIN s.f /\ ~IsList(s.f.lines)
    \/ "lines" \in DOMAIN s.f /\ IsList(s.f.lines)
          /\ \E j \in DOMAIN s.f.lines.items : ~LineAccepts(s.f.lines.items[j])

LinesOfEntry(s) == IF "lines" \in DOMAIN s.f THEN s.f.lines.items ELSE <<>>

IsEntryWarning(a) ==
    /\ a.anomaly_type = "MISSING_DATA" /\ a.severity = "WARNING"
    /\ a.description.template = "Failed to parse shipment data"

\* C27: each entry of the response is all-or-nothing: the returned shipments
\* are the entries that validate, in response order, each with all of its
\* lines; every entry that fails, at the shipment or at any of its lines,
\* is absent and adds exactly one MISSING_DATA anomaly of severity WARNING;
\* the returned shipments and these warnings are as many as the entries.
C27_EntriesAllOrNothing ==
    op = "_parse_response" /\ response[1].json =>
        LET entries == EntriesOf(response[1])
            valid == SelectSeq(entries, LAMBDA s : ~EntryFails(s))
            warnings == SelectSeq(anomalies, IsEntryWarning)
        IN  /\ Len(shipments) = Len(valid)
            /\ \A k \in DOMAIN shipments :
                  /\ shipments[k].awb =
                        IF "awb" \in DOMAIN valid[k].f THEN valid[k].f.awb.s ELSE MISSING
                  /\ Len(shipments[k].lines) = Len(LinesOfEntry(valid[k]))
                  /\ \A j \in DOMAIN shipments[k].lines :
                        shipments[k].lines[j].species = LinesOfEntry(valid[k])[j].f.species.s
            /\ Len(warnings) = Len(entries) - Len(valid)
            /\ Len(shipments) + Len(warnings) = Len(entries)

C27_Witness ==
    /\ op = "_parse_response"
    /\ response[1].json
    /\ Len(EntriesOf(response[1])) = 3
    /\ EntriesOf(response[1])[2] =
          JObject([awb |-> JStr(AWB_B), date |-> JStr(RunDateText),
                   lines |-> JList(<<GoodLine, BadLine>>)])
    /\ Len(shipments) = 2
    /\ shipments[1].awb = AWB_A /\ shipments[2].awb = MISSING
    /\ Len(shipments[2].lines) = 2
    /\ Len(anomalies) = 2
    /\ IsEntryWarning(anomalies[1]) /\ ~IsEntryWarning(anomalies[2])

----------------------------------------------------------------------------
(* Properties of the run pipeline.                                         *)

\* from the moment Drive or Sheets can be reached, the file of the run
\* date holds the payload of the run, its totals computed from its shipments
LocalSaveStands ==
    run.pc \in {"drive", "sheets", "summary", "complete"}
    \/ run.drive # "not attempted" \/ run.sheets # "not attempted"
        => /\ files[payload_path(run.date)] = Some(model_dump(payload))
           /\ payload.shipments = shipments
           /\ payload.totals = AddShipments(NoTotals, shipments)
           /\ load_daily_payload(files, run.date) = Some(payload)

\* a run whose search finds no message persists nothing and calls neither
\* Drive nor Sheets
NothingPersistedWithoutMessages ==
    emails = <<>> =>
        /\ files = NoFiles /\ tabs = EmptySpreadsheet
        /\ run.drive = "not attempted" /\ run.sheets = "not attempted"
        /\ run.pc \in {"search", "returned"}

\* a failure of Drive or Sheets is followed by the completion summary
FailuresDoNotStopTheRun ==
    /\ (run.drive = "failed") ~> (run.pc = "complete")
    /\ (run.sheets = "failed") ~> (run.pc = "complete")

\* C28 as stated: the local payload is saved, totals computed, before Drive
\* or Sheets is attempted; a Drive or Sheets failure neither undoes the save
\* nor stops the run, which reaches its completion summary; after a Drive
\* failure the Sheets push is still attempted; a run without messages
\* persists nothing.
C28_SheetsPushAfterDriveFailure ==
    /\ [](LocalSaveStands /\ NothingPersistedWithoutMessages)
    /\ FailuresDoNotStopTheRun
    /\ (run.drive = "failed") ~> (run.sheets # "not attempted")

\* C28, amended: as above, and after a Drive failure the Sheets push is
\* still attempted unless the run was started with --skip-sheets, in which
\* case it is never attempted.
C28_SheetsPushUnlessSkipped ==
    /\ [](LocalSaveStands /\ NothingPersistedWithoutMessages)
    /\ FailuresDoNotStopTheRun
    /\ (run.drive = "failed" /\ ~run.skip_sheets) ~> (run.sheets # "not attempted")
    /\ [](run.skip_sheets => run.sheets = "not attempted")

C28_Witness ==
    /\ run.pc = "complete"
    /\ run.drive = "failed" /\ run.sheets = "failed"
    /\ Len(shipments) = 1
    /\ load_daily_payload(files, run.date) = Some(payload)
    /\ payload.totals.total_boxes = 10
    /\ tabs.Shipments # <<>> /\ tabs.DailySummary = <<>>

----------------------------------------------------------------------------
(* The sentinel in the anomalies of run_all_checks.                        *)

\* C30: the sentinel "MISSING" is never the related_awb of an anomaly that
\* run_all_checks returns; a related_awb that is present is the AWB of an
\* input shipment that has one, or an AWB mentioned in an input email.
C30_SentinelNeverRelated ==
    op = "run_all_checks" =>
        \A i \in DOMAIN anomalies :
            anomalies[i].related_awb # None =>
                /\ anomalies[i].related_awb[1] # MISSING
                /\ \/ \E k \in DOMAIN shipments : shipments[k].awb = anomalies[i].related_awb[1]
                   \/ \E k \in DOMAIN emails :
                         anomalies[i].related_awb[1] \in Range(MentionedAwbs(emails[k]))

----------------------------------------------------------------------------
(* The breakdowns as a partition of the totals.                            *)

RECURSIVE PayloadLines(_)
PayloadLines(ss) == IF ss = <<>> THEN <<>> ELSE Head(ss).lines \o PayloadLines(Tail(ss))

RECURSIVE SumOf(_)
SumOf(ns) == IF ns = <<>> THEN 0 ELSE Head(ns) + SumOf(Tail(ns))

\* the sum of numbers as real numbers
RECURSIVE ExactSum(_)
ExactSum(xs) == IF xs = <<>> THEN Zero64 ELSE ExactAdd(Head(xs), ExactSum(Tail(xs)))

\* the sum of floats from left to right, each addition rounded
RECURSIVE FloatSum(_, _)
FloatSum(acc, xs) == IF xs = <<>> THEN acc ELSE FloatSum(Add64(acc, Head(xs)), Tail(xs))

Weighs(line) == IF line.weight_lbs = None THEN Zero64 ELSE line.weight_lbs[1]

WeightsOf(lines) == [i \in DOMAIN lines |-> Weighs(lines[i])]

IsWhole(x) == Canonical(x).e >= 0

\* box counts and order counts of the buckets add up to the totals, and the
\* buckets are those of the keys the lines carry, one for each
CountsPartition ==
    LET t == payload.totals
        lines == PayloadLines(payload.shipments)
    IN  /\ SumOf([i \in DOMAIN t.species_breakdown |-> t.species_breakdown[i].boxes]) = t.total_boxes
        /\ SumOf([i \in DOMAIN t.customer_breakdown |-> t.customer_breakdown[i].boxes]) = t.total_boxes
        /\ SumOf([i \in DOMAIN t.customer_breakdown |-> t.customer_breakdown[i].order_count])
              = Len(lines)
        /\ KeysIn(t.species_breakdown) = {lines[i].species : i \in DOMAIN lines}
        /\ Len(t.species_breakdown) = Cardinality(KeysIn(t.species_breakdown))
        /\ KeysIn(t.customer_breakdown) =
              {IF lines[i].company = None \/ lines[i].company[1] = <<>>
               THEN lines[i].customer_name ELSE lines[i].company[1] : i \in DOMAIN lines}
        /\ Len(t.customer_breakdown) = Cardinality(KeysIn(t.customer_breakdown))

\* the weights of the buckets of a breakdown add up to total_weight_lbs
WeightsAddUp(dict) ==
    Canonical(ExactSum([i \in DOMAIN dict |-> dict[i].weight_lbs]))
        = Canonical(payload.totals.total_weight_lbs)

====
